---- MODULE Spec2Model ----
(***************************************************************************)
(* Lexigraph meeting-intelligence pipeline: the conversational query agent *)
(* (src/src/agents/query_agent.py), the entity extractor with its retry    *)
(* policy (src/src/agents/extractor.py), the graph store client            *)
(* (src/src/graph/neo4j_client.py) and the graph builder                   *)
(* (src/src/agents/graph_builder.py).                                      *)
(*                                                                         *)
(* Text whose characters the code inspects (strip, startswith, split,      *)
(* slicing, toLower, CONTAINS) is a sequence of one-character strings.     *)
(* Text the code only stores and passes on is an opaque string.            *)
(***************************************************************************)
EXTENDS Integers, Sequences, FiniteSets, Bags, TLC

VARIABLES
    chat_history,   \* QueryAgent.chat_history: sequence of turns
    qa_connected,   \* QueryAgent._connected
    qa_driver,      \* QueryAgent.client._driver is not None
    last_query,     \* outcome of the last QueryAgent.query() call
    formatted,      \* last value returned by QueryAgent._format_chat_history()
    completed,      \* history: query() calls that returned since the last clear_history()
    ext_call,       \* last ExtractorAgent.extract() call: attempts, waits, outcome
    nodes,          \* the store's nodes, in creation order (index = element id)
    rels,           \* the store's relationships: a bag of <<from id, type, to id>>
    gb_connected,   \* GraphBuilderAgent._connected
    gb_driver,      \* GraphBuilderAgent.client._driver is not None
    upserts,        \* history: the attribute the last two create calls passed for each key
    last_build,     \* the last build_graph call: its extraction and its outcome
    builds,         \* number of build_graph calls made so far
    sessions,       \* number of sessions of the Neo4jClient's driver that are open
    last_run,       \* the last direct Neo4jClient.run_query call: its steps and outcome
    call_args,      \* the arguments a function is called with
    call_result     \* what the last call of it returned, or raised

vars == <<chat_history, qa_connected, qa_driver, last_query, formatted, completed,
          ext_call,
          nodes, rels, upserts, gb_connected, gb_driver, last_build, builds,
          sessions, last_run, call_args, call_result>>

queryVars == <<chat_history, qa_connected, qa_driver, last_query, formatted, completed>>
extractVars == <<ext_call>>
graphVars == <<nodes, rels, upserts, gb_connected, gb_driver, last_build, builds>>
clientVars == <<sessions, last_run>>
callVars == <<call_args, call_result>>

(***************************************************************************)
(* Text helpers                                                            *)
(***************************************************************************)

\* Python's None
None == "None"

\* the characters str.strip() removes
Whitespace == {" ", "\n", "\t"}

\* s[:n]
Take(s, n) == SubSeq(s, 1, IF n < Len(s) THEN n ELSE Len(s))

\* s[n:]
Drop(s, n) == SubSeq(s, n + 1, Len(s))

\* s.startswith(p)
StartsWith(s, p) == Len(s) >= Len(p) /\ SubSeq(s, 1, Len(p)) = p

RECURSIVE LStrip(_)
LStrip(s) ==
    IF s # <<>> /\ Head(s) \in Whitespace THEN LStrip(Tail(s)) ELSE s

RECURSIVE RStrip(_)
RStrip(s) ==
    IF s # <<>> /\ s[Len(s)] \in Whitespace
    THEN RStrip(SubSeq(s, 1, Len(s) - 1))
    ELSE s

\* s.strip()
Strip(s) == RStrip(LStrip(s))

\* s.find(p): the least 0-based offset at which p occurs in s, or -1
Find(s, p) ==
    LET hits == {i \in 0..(Len(s) - Len(p)) : SubSeq(s, i + 1, i + Len(p)) = p}
    IN  IF hits = {} THEN -1 ELSE CHOOSE i \in hits : \A j \in hits : i <= j

\* the backtick character, which a TLA+ string literal cannot hold
BT == "backtick"

Fence == <<BT, BT, BT>>
CypherTag == <<"c", "y", "p", "h", "e", "r">>

\* s.split(fence)[1] for an s that starts with the fence: the text between the
\* leading fence and the next one (or the end of s when there is no other)
SplitFenceSecond(s) ==
    LET rest == Drop(s, Len(Fence))
        k    == Find(rest, Fence)
    IN  IF k < 0 THEN rest ELSE Take(rest, k)

(***************************************************************************)
(* QueryAgent                                                              *)
(***************************************************************************)

\* the number of most recent turns _format_chat_history keeps
HistoryWindow == 5
\* the number of characters of an answer _format_chat_history keeps
AnswerTrunc == 200

NoHistory == <<"No previous conversation.">>

\* the first n elements of a sequence: s[:n]
FirstN(s, n) == SubSeq(s, 1, IF n < Len(s) THEN n ELSE Len(s))

\* the last n elements of a sequence: s[-n:]
LastN(s, n) == IF Len(s) <= n THEN s ELSE SubSeq(s, Len(s) - n + 1, Len(s))

\* _format_chat_history applied to a history h.  The returned text is the
\* sequence of its "\n"-joined lines; a line is the tuple of the parts its
\* f-string concatenates.
FormatChatHistory(h) ==
    IF h = <<>> THEN NoHistory
    ELSE LET w == LastN(h, HistoryWindow)
         IN  [k \in 1..(2 * Len(w)) |->
                LET i == (k + 1) \div 2
                IN  IF k % 2 = 1
                    THEN <<"Q", i, ": ", w[i].question>>
                    ELSE <<"A", i, ": ", Take(w[i].answer, AnswerTrunc), "...">>]

\* the cleaning with the language tag left in place
CleanCypherKeepTag(raw) ==
    LET c == Strip(raw)
    IN  IF StartsWith(c, Fence) THEN Strip(SplitFenceSecond(c)) ELSE Strip(c)

\* the cleaning generate_cypher applies to the text the model returned
CleanCypher(raw) ==
    LET c == Strip(raw)
    IN  IF StartsWith(c, Fence)
        THEN LET inner == SplitFenceSecond(c)
             IN  Strip(IF StartsWith(inner, CypherTag)
                       THEN Drop(inner, Len(CypherTag))
                       ELSE inner)
        ELSE Strip(c)

\* "error" in results[0]: a row is the sequence of its (key, value) pairs
HasKey(row, k) == \E i \in 1..Len(row) : row[i][1] = k
ValueOf(row, k) == row[CHOOSE i \in 1..Len(row) : row[i][1] = k][2]

\* execute_query swallowing the exception into an empty result
ErrorRowsDropped(e) == <<>>

\* the row execute_query returns in place of an exception e
ErrorRows(e) == << <<  <<"error", e>>  >> >>

\* one line of format_results: the "k: v" parts of the values that are not None
RowParts(row) ==
    LET keep == {i \in 1..Len(row) : row[i][2] # None}
        RECURSIVE Sel(_)
        Sel(i) == IF i > Len(row) THEN <<>>
                  ELSE IF i \in keep THEN <<row[i]>> \o Sel(i + 1)
                  ELSE Sel(i + 1)
    IN  Sel(1)

\* format_results
FormatResults(results) ==
    IF results = <<>> THEN <<"No results found.">>
    ELSE IF HasKey(results[1], "error")
         THEN <<"Query error: ", ValueOf(results[1], "error")>>
         ELSE [i \in 1..Len(results) |-> <<i, ". ", RowParts(results[i])>>]

\* ---- inputs of the query pipeline ----

\* the most turns the model lets the history grow to through query()
MaxQueryTurns == 3

Questions == {"What decisions were made?", "Who attended the weekly sync?"}

\* an answer longer than the AnswerTrunc characters the history prompt keeps
LongAnswer == [i \in 1..(AnswerTrunc + 1) |-> "x"]

\* what an external call did: returned val, or raised the exception val
Ok(v) == [ok |-> TRUE, val |-> v]
Raise(e) == [ok |-> FALSE, val |-> e]

\* texts the translation model may return, and its failure
CypherOutputs ==
    { Ok(<<" ", "M", "1", "\n">>),
      Ok(Fence \o CypherTag \o <<"\n", "M", "2", "\n">> \o Fence),
      Raise("RateLimitError") }

\* texts the synthesis model may return, and its failure
AnswerOutputs ==
    { Ok(<<" ", "o", "k", "\n">>), Ok(LongAnswer), Raise("APIConnectionError") }

\* what the store may do with a query: no row, one row, or an exception
StoreOutcomes ==
    { Ok(<<>>),
      Ok(<< << <<"decision", "Use dark mode">>, <<"topic", None>> >> >>),
      Raise("CypherSyntaxError") }

\* the exception verify_connectivity raises for an unreachable store
Unavailable == "ServiceUnavailable"

\* ---- outcome of a query() call ----

NoCall == [kind |-> "none"]

\* before any call of _format_chat_history()
NotFormatted == <<None>>

\* the dictionary query() returns; store_raised records whether run_query
\* raised, and contexts the chat_history text the translation prompt and the
\* synthesis prompt were filled with
Returned(q, cy, res, fr, ans, sr, ctx, steps) ==
    [kind |-> "returned", question |-> q, cypher |-> cy, raw_results |-> res,
     formatted_results |-> fr, answer |-> ans, store_raised |-> sr,
     contexts |-> ctx, steps |-> steps]

\* query() left by another exception than the one raised in it
RaisedWrapped(e, steps) == [kind |-> "raised", error |-> "RuntimeError", steps |-> steps]

\* query() left by the exception e after the steps
Raised(e, steps) == [kind |-> "raised", error |-> e, steps |-> steps]

\* a step of query() and the exception that left it, None when it returned
Step(name, raised) == [step |-> name, raised |-> raised]

\* the steps a query() call takes, each one after the step before it returned:
\* cy and an are what the two chains do, connects tells whether execute_query
\* gets past connect(); what the store raises is caught in execute_query
QuerySteps(cy, connects, an) ==
    IF ~cy.ok THEN << Step("generate_cypher", cy.val) >>
    ELSE IF ~connects
         THEN << Step("generate_cypher", None), Step("execute_query", Unavailable) >>
    ELSE IF ~an.ok
         THEN << Step("generate_cypher", None), Step("execute_query", None),
                 Step("answer_chain", an.val) >>
    ELSE << Step("generate_cypher", None), Step("execute_query", None),
            Step("answer_chain", None), Step("chat_history.append", None) >>

\* the contexts with the synthesis reading the history after the append
ContextsAfterAppend(h, t) ==
    << FormatChatHistory(h), FormatChatHistory(Append(h, t)) >>

\* the chat_history texts the translation prompt and the synthesis prompt get
\* in a query() on the history h that records the turn t
Contexts(h, t) == << FormatChatHistory(h), FormatChatHistory(h) >>

\* a turn of the conversation history
Turn(q, ans, cy) == [question |-> q, answer |-> ans, cypher |-> cy]

\* execute_query's result for what the store did with the query
ExecuteResult(st) == IF st.ok THEN st.val ELSE ErrorRows(st.val)

\* the turn put in front of the history
RecordFirst(h, t) == <<t>> \o h

\* the history after query() recorded the turn t
Record(h, t) == Append(h, t)

\* no create call was recorded
NoUpserts == [x \in {} |-> None]

\* a statement that deletes every node with its relationships, and the text of
\* the translation model that is this statement
DetachDeleteAll ==
    <<"M", "A", "T", "C", "H", " ", "(", "n", ")", " ", "D", "E", "T", "A", "C", "H", " ", "D", "E", "L", "E", "T", "E", " ", "n">>
WriteOutputs == { Ok(DetachDeleteAll \o <<"\n">>) }

\* the statement has a DELETE clause, which session.run executes like any other
Deletes(cypher) == Find(cypher, <<"D", "E", "L", "E", "T", "E">>) >= 0

\* query(question): cy, st and an are what the translation model, the store and
\* the synthesis model do in this call; reachable tells whether the store
\* passes verify_connectivity
Query(question, cy, reachable, st, an) ==
    /\ Len(chat_history) < MaxQueryTurns
    /\ UNCHANGED <<formatted, extractVars, gb_connected, gb_driver, last_build, builds,
                   clientVars, callVars>>
    /\ IF ~cy.ok
       THEN \* generate_cypher raises before anything else happened
            /\ last_query' = Raised(cy.val, QuerySteps(cy, FALSE, an))
            /\ UNCHANGED <<chat_history, completed, qa_connected, qa_driver,
                           nodes, rels, upserts>>
       ELSE LET cypher  == CleanCypher(cy.val)
                results == ExecuteResult(st)
                fr      == FormatResults(results)
            IN  IF ~qa_connected /\ ~qa_driver /\ ~reachable
                THEN \* execute_query -> connect(): the driver is assigned, then
                     \* verify_connectivity raises outside the try block
                     /\ qa_driver' = TRUE
                     /\ last_query' = Raised(Unavailable, QuerySteps(cy, FALSE, an))
                     /\ UNCHANGED <<chat_history, completed, qa_connected,
                                    nodes, rels, upserts>>
                ELSE /\ qa_driver' = TRUE
                     /\ qa_connected' = TRUE
                     /\ \* client.run_query(cypher): the store runs the statement
                        IF st.ok /\ Deletes(cypher)
                        THEN /\ nodes' = <<>>
                             /\ rels' = EmptyBag
                             /\ upserts' = NoUpserts
                        ELSE UNCHANGED <<nodes, rels, upserts>>
                     /\ IF ~an.ok
                        THEN /\ last_query' = Raised(an.val, QuerySteps(cy, TRUE, an))
                             /\ UNCHANGED <<chat_history, completed>>
                        ELSE LET answer == Strip(an.val)
                             IN  /\ chat_history' =
                                       Record(chat_history, Turn(question, answer, cypher))
                                 /\ completed' = completed + 1
                                 /\ last_query' =
                                       Returned(question, cypher, results, fr, answer,
                                                ~st.ok,
                                                Contexts(chat_history,
                                                         Turn(question, answer, cypher)),
                                                QuerySteps(cy, TRUE, an))

\* query(question) for one of questions, with the translation model returning
\* one of cyphers
query(questions, cyphers) ==
    \E question \in questions, cy \in cyphers, reachable \in BOOLEAN,
       st \in StoreOutcomes, an \in AnswerOutputs :
        Query(question, cy, reachable, st, an)

\* a history cleared of all its turns but the first
ClearedButFirst(h) == IF h = <<>> THEN <<>> ELSE <<h[1]>>

\* self.chat_history = []
Cleared(h) == <<>>

\* clear_history()
clear_history ==
    /\ chat_history' = Cleared(chat_history)
    /\ completed' = 0
    /\ UNCHANGED <<qa_connected, qa_driver, last_query, formatted, extractVars, graphVars, clientVars, callVars>>

\* QueryAgent.connect(): client.connect() assigns the driver and then verifies it
qa_connect ==
    \E reachable \in BOOLEAN :
        /\ ~qa_connected
        /\ qa_driver' = TRUE
        /\ qa_connected' = (qa_driver \/ reachable)
        /\ UNCHANGED <<chat_history, completed, last_query, formatted,
                       extractVars, graphVars, clientVars, callVars>>

\* QueryAgent.close()
qa_close ==
    /\ qa_connected
    /\ qa_driver' = FALSE
    /\ qa_connected' = FALSE
    /\ UNCHANGED <<chat_history, completed, last_query, formatted, extractVars, graphVars, clientVars, callVars>>

\* a call of _format_chat_history()
format_chat_history ==
    /\ formatted' = FormatChatHistory(chat_history)
    /\ UNCHANGED <<chat_history, completed, qa_connected, qa_driver, last_query,
                   extractVars, graphVars, clientVars, callVars>>

QueryInit ==
    /\ chat_history = <<>>
    /\ completed = 0
    /\ qa_connected = FALSE
    /\ qa_driver = FALSE
    /\ last_query = NoCall
    /\ formatted = NotFormatted

(***************************************************************************)
(* Neo4jClient: the property graph and the Cypher statements of the        *)
(* creation helpers.  A graph g is [nodes, rels]; a node is a record with  *)
(* its label and its properties, a property set to null being None.        *)
(***************************************************************************)

UpperCase == <<"A", "B", "C", "D", "E", "F", "G", "H", "I", "J", "K", "L", "M",
               "N", "O", "P", "Q", "R", "S", "T", "U", "V", "W", "X", "Y", "Z">>
LowerCase == <<"a", "b", "c", "d", "e", "f", "g", "h", "i", "j", "k", "l", "m",
               "n", "o", "p", "q", "r", "s", "t", "u", "v", "w", "x", "y", "z">>

\* the lower-case letter of each upper-case letter
LowerOf ==
    [c \in {UpperCase[k] : k \in 1..Len(UpperCase)} |->
        LowerCase[CHOOSE k \in 1..Len(UpperCase) : UpperCase[k] = c]]

\* Cypher's toLower()
ToLower(s) ==
    [i \in 1..Len(s) |-> IF s[i] \in DOMAIN LowerOf THEN LowerOf[s[i]] ELSE s[i]]

\* Cypher's  s CONTAINS t
Contains(s, t) == Find(s, t) >= 0

Graph(ns, rs) == [nodes |-> ns, rels |-> rs]

EmptyGraph == Graph(<<>>, EmptyBag)

\* the ids of the nodes of g with the given label whose property prop is value
MatchExact(g, label, prop, value) ==
    {i \in 1..Len(g.nodes) : g.nodes[i].label = label /\ g.nodes[i][prop] = value}

\* the least element of a non-empty set of ids: the first row of a result
FirstId(ids) == CHOOSE i \in ids : \A j \in ids : i <= j

\* MERGE with ON CREATE SET: a matched node keeps its attribute
MergeNodeOnCreateSet(g, label, keyProp, key, attrProp, attr, fresh) ==
    LET found == {i \in 1..Len(g.nodes) :
                    g.nodes[i].label = label /\ g.nodes[i][keyProp] = key}
    IN  IF found = {}
        THEN [g   |-> [nodes |-> Append(g.nodes, fresh), rels |-> g.rels],
              ret |-> Len(g.nodes) + 1]
        ELSE [g |-> g, ret |-> CHOOSE i \in found : \A j \in found : i <= j]

\* MERGE (n:label {keyProp: key}) SET n.attrProp = attr RETURN elementId(n):
\* the graph after the statement and the id the helper returns
MergeNode(g, label, keyProp, key, attrProp, attr, fresh) ==
    LET found == MatchExact(g, label, keyProp, key)
    IN  IF found = {}
        THEN [g   |-> Graph(Append(g.nodes, fresh), g.rels),
              ret |-> Len(g.nodes) + 1]
        ELSE [g   |-> Graph([i \in 1..Len(g.nodes) |->
                               IF i \in found
                               THEN [g.nodes[i] EXCEPT ![attrProp] = attr]
                               ELSE g.nodes[i]],
                            g.rels),
              ret |-> FirstId(found)]

\* CREATE (n:label {...}) RETURN elementId(n)
CreateNode(g, fresh) ==
    [g |-> Graph(Append(g.nodes, fresh), g.rels), ret |-> Len(g.nodes) + 1]

\* create_meeting(title, date)
CreateMeeting(g, title, date) ==
    MergeNode(g, "Meeting", "title", title, "date", date,
              [label |-> "Meeting", title |-> title, date |-> date])

\* create_person(name, role)
CreatePerson(g, name, role) ==
    MergeNode(g, "Person", "name", name, "role", role,
              [label |-> "Person", name |-> name, role |-> role])

\* create_topic(name, description)
CreateTopic(g, name, description) ==
    MergeNode(g, "Topic", "name", name, "description", description,
              [label |-> "Topic", name |-> name, description |-> description])

\* create_decision with MERGE in place of CREATE
CreateDecisionMerged(g, description) ==
    IF MatchExact(g, "Decision", "description", description) = {}
    THEN CreateNode(g, [label |-> "Decision", description |-> description])
    ELSE [g |-> g, ret |-> FirstId(MatchExact(g, "Decision", "description", description))]

\* create_decision(description)
CreateDecision(g, description) ==
    CreateNode(g, [label |-> "Decision", description |-> description])

\* create_action_item(description, deadline, priority)
CreateActionItem(g, description, deadline, priority) ==
    CreateNode(g, [label |-> "ActionItem", description |-> description,
                   deadline |-> deadline, priority |-> priority,
                   status |-> "pending"])

\* create_commitment(description)
CreateCommitment(g, description) ==
    CreateNode(g, [label |-> "Commitment", description |-> description])

\* the WHERE clause with its first disjunct only
FuzzyMatchOneWay(propValue, value) == Contains(ToLower(propValue), ToLower(value))

\* the WHERE clause of create_relationship:
\*   toLower(n.prop) CONTAINS toLower($value) OR toLower($value) CONTAINS toLower(n.prop)
FuzzyMatch(propValue, value) ==
    \/ Contains(ToLower(propValue), ToLower(value))
    \/ Contains(ToLower(value), ToLower(propValue))

\* MATCH (n:label) WHERE ...: the ids of the nodes the clause binds
MatchFuzzy(g, label, prop, value) ==
    {i \in 1..Len(g.nodes) :
        g.nodes[i].label = label /\ FuzzyMatch(g.nodes[i][prop], value)}

\* CREATE (a)-[r:rel_type]->(b) for every bound pair
CreateRels(rs, pairs, rel_type) ==
    rs (+) SetToBag({<<p[1], rel_type, p[2]>> : p \in pairs})

\* the relationships of the bound pairs in place of the ones there were
ReplaceRels(rs, pairs, rel_type) ==
    SetToBag({<<p[1], rel_type, p[2]>> : p \in pairs})

\* MERGE (a)-[r:rel_type]->(b) for every bound pair: a relationship is inserted
\* for the pairs that have none of that type yet
MergeRels(rs, pairs, rel_type) ==
    rs (+) SetToBag({<<p[1], rel_type, p[2]>> : p \in
                        {q \in pairs : ~BagIn(<<q[1], rel_type, q[2]>>, rs)}})

\* create_relationship(...): the graph after it and the boolean it returns
CreateRelationship(g, from_label, from_prop, from_value, rel_type, to_label, to_prop, to_value) ==
    LET as    == MatchFuzzy(g, from_label, from_prop, from_value)
        bs    == MatchFuzzy(g, to_label, to_prop, to_value)
        pairs == as \X bs
    IN  [g   |-> Graph(g.nodes, MergeRels(g.rels, pairs, rel_type)),
         ret |-> pairs # {}]

LinkPersonToMeeting(g, person_name, meeting_title) ==
    CreateRelationship(g, "Person", "name", person_name, "ATTENDED",
                       "Meeting", "title", meeting_title)

LinkMeetingToTopic(g, meeting_title, topic_name) ==
    CreateRelationship(g, "Meeting", "title", meeting_title, "DISCUSSED",
                       "Topic", "name", topic_name)

LinkPersonToDecision(g, person_name, decision_desc) ==
    CreateRelationship(g, "Person", "name", person_name, "MADE",
                       "Decision", "description", decision_desc)

LinkPersonToActionItem(g, person_name, action_desc) ==
    CreateRelationship(g, "Person", "name", person_name, "OWNS",
                       "ActionItem", "description", action_desc)

LinkPersonToCommitment(g, person_name, commitment_desc) ==
    CreateRelationship(g, "Person", "name", person_name, "COMMITTED",
                       "Commitment", "description", commitment_desc)

LinkDecisionToTopic(g, decision_desc, topic_name) ==
    CreateRelationship(g, "Decision", "description", decision_desc, "ABOUT",
                       "Topic", "name", topic_name)

LinkMeetingToDecision(g, meeting_title, decision_desc) ==
    CreateRelationship(g, "Meeting", "title", meeting_title, "CONTAINS",
                       "Decision", "description", decision_desc)

LinkMeetingToActionItem(g, meeting_title, action_desc) ==
    CreateRelationship(g, "Meeting", "title", meeting_title, "CONTAINS",
                       "ActionItem", "description", action_desc)

Labels == <<"Meeting", "Person", "Topic", "Decision", "ActionItem", "Commitment">>

\* MATCH (n:label) RETURN count(n)
CountNodes(g, label) == Cardinality({i \in 1..Len(g.nodes) : g.nodes[i].label = label})

\* get_node_counts(): with APOC the labels in use, each with its count; without
\* it (the procedure call raises) the fallback counts the six known labels
GetNodeCounts(g, apoc) ==
    LET known == {Labels[i] : i \in 1..Len(Labels)}
        dom   == IF apoc THEN {l \in known : CountNodes(g, l) > 0} ELSE known
    IN  [l \in dom |-> CountNodes(g, l)]

\* ---- calls on the client ----

\* the most nodes the model lets the direct client calls grow the graph to
MaxNodes == 3

\* values the direct client calls are made with
Titles == { <<"Q", "3">> }
Dates == { None, "2024-01-15" }
PersonNames == { <<"L", "e", "e", " ", "P", "a", "r", "k">>,
                 <<"A", "s", "h", "l", "e", "e", " ", "K", "i", "m">> }
Roles == { None, "PM" }
TopicNames == { <<"A", "P", "I">>, <<"a", "p", "i">> }
TopicDescriptions == { None, "Backend API docs" }
Descriptions == { <<"G", "o">> }
\* (deadline, priority) of the action items created
DeadlinesPriorities == { <<"Friday", None>> }
\* values the link helpers are called with: one that matches, one that does not
PersonValues == { <<"L", "e", "e">>, <<"M", "i", "k", "e">> }
TitleValues == { <<"q", "3", " ", "s", "y", "n", "c">>, <<"Q", "4">> }
TopicValues == { <<"A", "P">>, <<"U", "I">> }
DescriptionValues == { <<"g", "o">>, <<"N", "o">> }

Current == Graph(nodes, rels)

\* no create call was made for the key before
Absent == "absent"

\* upserts with the value v recorded as passed for the key k = <<label, key>>,
\* beside the last value passed for it before that differs from v
Noted(u, k, v) ==
    [x \in (DOMAIN u) \cup {k} |->
        IF x = k
        THEN [attr  |-> v,
              prior |-> IF k \notin DOMAIN u THEN Absent
                        ELSE IF u[k].attr = v THEN u[k].prior
                        ELSE u[k].attr]
        ELSE u[x]]

\* before any direct call of run_query, and before any call of a function
NoRun == [events |-> <<>>]
NoArgs == <<>>
NotCalled == [ok |-> FALSE, val |-> "not called"]

ClientInit ==
    /\ sessions = 0
    /\ last_run = NoRun

CallInit ==
    /\ call_args = NoArgs
    /\ call_result = NotCalled

\* before any call of build_graph, and before any call of extract
NoBuild == [applied |-> -2]
NoExtract == [api |-> "none"]

\* ---- session() and run_query() ----

\* the session() context manager around a body that returns (body_ok) or
\* raises, with the close left to the normal exit only
SessionNoFinally(body_ok) ==
    IF body_ok THEN <<"session", "run", "session.close">> ELSE <<"session", "run">>

\* the session() context manager around a body that returns (body_ok) or
\* raises: driver.session(), the body, and session.close() in the finally block
Session(body_ok) == <<"session", "run", "session.close">>

\* run_query(query, params) on a client whose driver is set or not: fault tells
\* where the store fails, "connect" in verify_connectivity, "run" in
\* session.run, "none" nowhere; store is what session.run does.  The steps the
\* call takes, what the caller gets, and the driver after it
RunQuery(driver, fault, store) ==
    IF ~driver /\ fault = "connect"
    THEN [driver |-> TRUE, events |-> <<"driver", "verify_connectivity">>,
          outcome |-> Raise(Unavailable)]
    ELSE [driver |-> TRUE,
          events |-> (IF driver THEN <<>> ELSE <<"driver", "verify_connectivity">>)
                     \o Session(store.ok),
          outcome |-> store]

\* the sessions open after the steps events, n of them being open before
SessionsAfter(n, events) ==
    n + Cardinality({i \in 1..Len(events) : events[i] = "session"})
      - Cardinality({i \in 1..Len(events) : events[i] = "session.close"})

\* where a call that the store serves (up) or fails can fail
Faults(driver, up) ==
    IF up THEN {"none"} ELSE IF driver THEN {"run"} ELSE {"connect", "run"}

\* a call of a client helper whose Cypher statement yields r = [g, ret] when the
\* store runs it.  session() connects first when there is no driver; a store
\* that is down raises, from verify_connectivity or from session.run, and the
\* statement changes nothing.  u is upserts after a successful call
ClientCall(r, u, up) ==
    /\ gb_driver' = TRUE
    /\ \E fault \in Faults(gb_driver, up) :
          sessions' =
              SessionsAfter(sessions,
                            RunQuery(gb_driver, fault,
                                     IF up THEN Ok(<<>>) ELSE Raise(Unavailable)).events)
    /\ UNCHANGED <<gb_connected, last_build, builds, last_run,
                   queryVars, extractVars, callVars>>
    /\ IF up
       THEN /\ nodes' = r.g.nodes
            /\ rels' = r.g.rels
            /\ upserts' = u
       ELSE UNCHANGED <<nodes, rels, upserts>>

\* the node-creating calls are made while the graph has fewer than MaxNodes nodes
Room == Len(nodes) < MaxNodes

create_meeting(dates) ==
    \E title \in Titles, date \in dates, up \in BOOLEAN :
        /\ Room
        /\ ClientCall(CreateMeeting(Current, title, date),
                      Noted(upserts, <<"Meeting", title>>, date), up)

create_person(roles) ==
    \E name \in PersonNames, role \in roles, up \in BOOLEAN :
        /\ Room
        /\ ClientCall(CreatePerson(Current, name, role),
                      Noted(upserts, <<"Person", name>>, role), up)

create_topic(descriptions) ==
    \E name \in TopicNames, description \in descriptions, up \in BOOLEAN :
        /\ Room
        /\ ClientCall(CreateTopic(Current, name, description),
                      Noted(upserts, <<"Topic", name>>, description), up)

create_decision ==
    \E description \in Descriptions, up \in BOOLEAN :
        /\ Room
        /\ ClientCall(CreateDecision(Current, description), upserts, up)

create_action_item ==
    \E description \in Descriptions, dp \in DeadlinesPriorities, up \in BOOLEAN :
        /\ Room
        /\ ClientCall(CreateActionItem(Current, description, dp[1], dp[2]), upserts, up)

create_commitment ==
    \E description \in Descriptions, up \in BOOLEAN :
        /\ Room
        /\ ClientCall(CreateCommitment(Current, description), upserts, up)

link_person_to_meeting ==
    \E person_name \in PersonValues, meeting_title \in TitleValues, up \in BOOLEAN :
        ClientCall(LinkPersonToMeeting(Current, person_name, meeting_title), upserts, up)

link_meeting_to_topic ==
    \E meeting_title \in TitleValues, topic_name \in TopicValues, up \in BOOLEAN :
        ClientCall(LinkMeetingToTopic(Current, meeting_title, topic_name), upserts, up)

link_person_to_decision ==
    \E person_name \in PersonValues, decision_desc \in DescriptionValues, up \in BOOLEAN :
        ClientCall(LinkPersonToDecision(Current, person_name, decision_desc), upserts, up)

link_person_to_action_item ==
    \E person_name \in PersonValues, action_desc \in DescriptionValues, up \in BOOLEAN :
        ClientCall(LinkPersonToActionItem(Current, person_name, action_desc), upserts, up)

link_person_to_commitment ==
    \E person_name \in PersonValues, commitment_desc \in DescriptionValues, up \in BOOLEAN :
        ClientCall(LinkPersonToCommitment(Current, person_name, commitment_desc),
                   upserts, up)

link_decision_to_topic ==
    \E decision_desc \in DescriptionValues, topic_name \in TopicValues, up \in BOOLEAN :
        ClientCall(LinkDecisionToTopic(Current, decision_desc, topic_name), upserts, up)

link_meeting_to_decision ==
    \E meeting_title \in TitleValues, decision_desc \in DescriptionValues, up \in BOOLEAN :
        ClientCall(LinkMeetingToDecision(Current, meeting_title, decision_desc),
                   upserts, up)

link_meeting_to_action_item ==
    \E meeting_title \in TitleValues, action_desc \in DescriptionValues, up \in BOOLEAN :
        ClientCall(LinkMeetingToActionItem(Current, meeting_title, action_desc),
                   upserts, up)

\* read statements run_query is called with directly
Statements == {"MATCH (n) RETURN count(n) as count", "MATCH (n:Person RETURN n"}

\* what session.run may do with a statement
RunOutcomes == StoreOutcomes \cup {Raise(Unavailable)}

\* whether the driver the client holds has passed verify_connectivity, as the
\* last call recorded leaves it
Verified == last_run # NoRun /\ last_run.verified

\* Neo4jClient.connect() on a client whose _driver is set (driver) or None:
\* the driver is assigned before verify_connectivity, which raises when the
\* store is not reachable
ClientConnect(driver, reachable) ==
    [driver |-> TRUE,
     events |-> IF driver THEN <<>> ELSE <<"driver", "verify_connectivity">>,
     outcome |-> IF driver \/ reachable THEN Ok(None) ELSE Raise(Unavailable)]

\* Neo4jClient.close()
ClientClose(driver) ==
    [driver |-> FALSE, events |-> IF driver THEN <<"driver.close">> ELSE <<>>,
     outcome |-> Ok(None)]

\* run_query(query) called on the client directly
run_query ==
    \E statement \in Statements, store \in RunOutcomes :
      \E fault \in Faults(gb_driver, store.ok) :
        LET r == RunQuery(gb_driver, fault, store)
        IN  /\ gb_driver' = r.driver
            /\ sessions' = SessionsAfter(sessions, r.events)
            /\ last_run' = [op |-> "run_query", query |-> statement, fault |-> fault,
                            store |-> store, had_driver |-> gb_driver,
                            verified |-> IF gb_driver THEN Verified
                                         ELSE fault # "connect",
                            events |-> r.events, outcome |-> r.outcome]
            /\ UNCHANGED <<nodes, rels, upserts, gb_connected, last_build, builds,
                           queryVars, extractVars, callVars>>

\* connect() called on the client directly
client_connect ==
    \E reachable \in BOOLEAN :
        LET r == ClientConnect(gb_driver, reachable)
        IN  /\ gb_driver' = r.driver
            /\ last_run' = [op |-> "connect", reachable |-> reachable,
                            had_driver |-> gb_driver, was_verified |-> Verified,
                            was_connected |-> gb_connected,
                            verified |-> IF gb_driver THEN Verified ELSE reachable,
                            events |-> r.events, outcome |-> r.outcome]
            /\ UNCHANGED <<nodes, rels, upserts, gb_connected, last_build, builds,
                           sessions, queryVars, extractVars, callVars>>

\* close() called on the client directly
client_close ==
    LET r == ClientClose(gb_driver)
    IN  /\ gb_driver' = r.driver
        /\ last_run' = [op |-> "close", had_driver |-> gb_driver,
                        was_verified |-> Verified, verified |-> FALSE,
                        events |-> r.events, outcome |-> r.outcome]
        /\ UNCHANGED <<nodes, rels, upserts, gb_connected, last_build, builds,
                       sessions, queryVars, extractVars, callVars>>

\* GraphBuilderAgent.connect(): client.connect() unless _connected, which is
\* set when client.connect() returns
gb_connect ==
    \E reachable \in BOOLEAN :
        LET r == IF gb_connected
                 THEN [driver |-> gb_driver, events |-> <<>>, outcome |-> Ok(None)]
                 ELSE ClientConnect(gb_driver, reachable)
        IN  /\ gb_driver' = r.driver
            /\ gb_connected' = (gb_connected \/ r.outcome.ok)
            /\ last_run' = [op |-> "agent.connect", reachable |-> reachable,
                            had_driver |-> gb_driver, was_verified |-> Verified,
                            was_connected |-> gb_connected,
                            verified |-> IF gb_driver \/ gb_connected THEN Verified
                                         ELSE reachable,
                            events |-> r.events, outcome |-> r.outcome]
            /\ UNCHANGED <<nodes, rels, upserts, last_build, builds,
                           sessions, queryVars, extractVars, callVars>>

\* clear_database(): MATCH (n) DETACH DELETE n
clear_database ==
    \E up \in BOOLEAN : ClientCall([g |-> EmptyGraph, ret |-> None], NoUpserts, up)

GraphInit ==
    /\ nodes = <<>>
    /\ rels = EmptyBag
    /\ upserts = NoUpserts
    /\ gb_connected = FALSE
    /\ gb_driver = FALSE
    /\ last_build = NoBuild
    /\ builds = 0

Init ==
    /\ QueryInit
    /\ GraphInit
    /\ ext_call = NoExtract
    /\ ClientInit
    /\ CallInit

\* the upserting helpers, called with every attribute value
UpsertNext ==
    \/ create_meeting(Dates)
    \/ create_person(Roles)
    \/ create_topic(TopicDescriptions)
    \/ clear_database

UpsertSpec == Init /\ [][UpsertNext]_vars

\* all the helpers; the upserting ones are called without their optional attribute
LinkNext ==
    \/ create_meeting({None})
    \/ create_person({None})
    \/ create_topic({None})
    \/ create_decision
    \/ create_action_item
    \/ create_commitment
    \/ link_person_to_meeting
    \/ link_meeting_to_topic
    \/ link_person_to_decision
    \/ link_person_to_action_item
    \/ link_person_to_commitment
    \/ link_decision_to_topic
    \/ link_meeting_to_decision
    \/ link_meeting_to_action_item
    \/ clear_database

LinkSpec == Init /\ [][LinkNext]_vars

\* run_query called directly between other uses of the client
RunQueryNext ==
    \/ run_query
    \/ client_connect
    \/ client_close
    \/ create_decision
    \/ clear_database

RunQuerySpec == Init /\ [][RunQueryNext]_vars

ConnectNext ==
    \/ client_connect
    \/ client_close
    \/ gb_connect
    \/ run_query
    \/ qa_connect
    \/ qa_close

ConnectSpec == Init /\ [][ConnectNext]_vars

(***************************************************************************)
(* GraphBuilderAgent.build_graph                                           *)
(***************************************************************************)

\* the most build_graph calls the model makes
MaxBuilds == 2

LeePark == <<"L", "e", "e", " ", "P", "a", "r", "k">>
AshleeKim == <<"A", "s", "h", "l", "e", "e", " ", "K", "i", "m">>
Lee == <<"L", "e", "e">>
Api == <<"A", "P", "I">>
Q3 == <<"Q", "3">>
Go == <<"G", "o">>
NoGo == <<"N", "o", " ", "g", "o">>
Ship == <<"S", "h", "i", "p">>
Deliver == <<"D", "e", "l", "i", "v", "e", "r">>

\* a MeetingExtraction with every kind of entity; its decision names its maker
\* by a part of the name
FullExtraction ==
    [meeting_title |-> Q3, meeting_date |-> "2024-01-15",
     people |-> << [name |-> LeePark, role |-> "PM"],
                   [name |-> AshleeKim, role |-> None] >>,
     topics |-> << [name |-> Api, description |-> "Backend API docs"] >>,
     decisions |-> << [description |-> Go, made_by |-> Lee, related_topic |-> Api] >>,
     action_items |-> << [description |-> Ship, owner |-> AshleeKim,
                          deadline |-> "Friday", priority |-> "high"] >>,
     commitments |-> << [description |-> Deliver, made_by |-> LeePark,
                         to_whom |-> None] >>]

\* an extraction that lists the same person and the same topic twice
RepeatingExtraction ==
    [meeting_title |-> Q3, meeting_date |-> None,
     people |-> << [name |-> LeePark, role |-> "PM"],
                   [name |-> LeePark, role |-> None] >>,
     topics |-> << [name |-> Api, description |-> None],
                   [name |-> Api, description |-> None] >>,
     decisions |-> << [description |-> NoGo, made_by |-> None, related_topic |-> <<>>] >>,
     action_items |-> <<>>,
     commitments |-> <<>>]

\* an extraction with a title only
EmptyExtraction ==
    [meeting_title |-> <<"q", "3">>, meeting_date |-> None,
     people |-> <<>>, topics |-> <<>>, decisions |-> <<>>,
     action_items |-> <<>>, commitments |-> <<>>]

Extractions == {FullExtraction, RepeatingExtraction, EmptyExtraction}

\* Python truthiness of an optional string
Truthy(v) == v # None /\ v # <<>>

Op(name, args) == [op |-> name, args |-> args]

\* the concatenation of the sequences f[1], ..., f[n]
RECURSIVE Flatten(_, _)
Flatten(f, n) == IF n = 0 THEN <<>> ELSE Flatten(f, n - 1) \o f[n]

\* the client calls of the loop over extraction.people
PersonOps(e) ==
    Flatten([i \in 1..Len(e.people) |->
                << Op("create_person", <<e.people[i].name, e.people[i].role>>),
                   Op("link_person_to_meeting", <<e.people[i].name, e.meeting_title>>) >>],
            Len(e.people))

\* the client calls of the loop over extraction.topics
TopicOps(e) ==
    Flatten([i \in 1..Len(e.topics) |->
                << Op("create_topic", <<e.topics[i].name, e.topics[i].description>>),
                   Op("link_meeting_to_topic", <<e.meeting_title, e.topics[i].name>>) >>],
            Len(e.topics))

\* the client calls of the loop over extraction.decisions
DecisionOps(e) ==
    Flatten([i \in 1..Len(e.decisions) |->
                LET d == e.decisions[i]
                IN  << Op("create_decision", <<d.description>>),
                       Op("link_meeting_to_decision", <<e.meeting_title, d.description>>) >>
                    \o (IF Truthy(d.made_by)
                        THEN << Op("link_person_to_decision", <<d.made_by, d.description>>) >>
                        ELSE <<>>)
                    \o (IF Truthy(d.related_topic)
                        THEN << Op("link_decision_to_topic",
                                   <<d.description, d.related_topic>>) >>
                        ELSE <<>>)],
            Len(e.decisions))

\* the client calls of the loop over extraction.action_items
ActionItemOps(e) ==
    Flatten([i \in 1..Len(e.action_items) |->
                LET a == e.action_items[i]
                IN  << Op("create_action_item", <<a.description, a.deadline, a.priority>>),
                       Op("link_meeting_to_action_item",
                          <<e.meeting_title, a.description>>) >>
                    \o (IF Truthy(a.owner)
                        THEN << Op("link_person_to_action_item", <<a.owner, a.description>>) >>
                        ELSE <<>>)],
            Len(e.action_items))

\* the client calls of the loop over extraction.commitments
CommitmentOps(e) ==
    Flatten([i \in 1..Len(e.commitments) |->
                LET c == e.commitments[i]
                IN  << Op("create_commitment", <<c.description>>) >>
                    \o (IF Truthy(c.made_by)
                        THEN << Op("link_person_to_commitment", <<c.made_by, c.description>>) >>
                        ELSE <<>>)],
            Len(e.commitments))

\* build_graph without its loop over the commitments
BuildOpsNoCommitments(e) ==
    << Op("create_meeting", <<e.meeting_title, e.meeting_date>>) >>
    \o PersonOps(e) \o TopicOps(e) \o DecisionOps(e) \o ActionItemOps(e)

\* the client calls build_graph(e) makes, in order
BuildOps(e) ==
    << Op("create_meeting", <<e.meeting_title, e.meeting_date>>) >>
    \o PersonOps(e) \o TopicOps(e) \o DecisionOps(e) \o ActionItemOps(e)
    \o CommitmentOps(e)

\* the graph after the client call o
ApplyOp(g, o) ==
    LET a == o.args
    IN  CASE o.op = "create_meeting" -> CreateMeeting(g, a[1], a[2]).g
          [] o.op = "create_person" -> CreatePerson(g, a[1], a[2]).g
          [] o.op = "create_topic" -> CreateTopic(g, a[1], a[2]).g
          [] o.op = "create_decision" -> CreateDecision(g, a[1]).g
          [] o.op = "create_action_item" -> CreateActionItem(g, a[1], a[2], a[3]).g
          [] o.op = "create_commitment" -> CreateCommitment(g, a[1]).g
          [] o.op = "link_person_to_meeting" -> LinkPersonToMeeting(g, a[1], a[2]).g
          [] o.op = "link_meeting_to_topic" -> LinkMeetingToTopic(g, a[1], a[2]).g
          [] o.op = "link_person_to_decision" -> LinkPersonToDecision(g, a[1], a[2]).g
          [] o.op = "link_person_to_action_item" -> LinkPersonToActionItem(g, a[1], a[2]).g
          [] o.op = "link_person_to_commitment" -> LinkPersonToCommitment(g, a[1], a[2]).g
          [] o.op = "link_decision_to_topic" -> LinkDecisionToTopic(g, a[1], a[2]).g
          [] o.op = "link_meeting_to_decision" -> LinkMeetingToDecision(g, a[1], a[2]).g
          [] o.op = "link_meeting_to_action_item" ->
                LinkMeetingToActionItem(g, a[1], a[2]).g

\* the graph after the first k of the calls ops
RECURSIVE ApplyOps(_, _, _)
ApplyOps(g, ops, k) ==
    IF k = 0 THEN g ELSE ApplyOp(ApplyOps(g, ops, k - 1), ops[k])

\* upserts after the client call o
NoteOp(u, o) ==
    CASE o.op = "create_meeting" -> Noted(u, <<"Meeting", o.args[1]>>, o.args[2])
      [] o.op = "create_person" -> Noted(u, <<"Person", o.args[1]>>, o.args[2])
      [] o.op = "create_topic" -> Noted(u, <<"Topic", o.args[1]>>, o.args[2])
      [] OTHER -> u

RECURSIVE NoteOps(_, _, _)
NoteOps(u, ops, k) ==
    IF k = 0 THEN u ELSE NoteOp(NoteOps(u, ops, k - 1), ops[k])

\* the number of calls among ops whose name starts with "link_"
LinkCount(ops) ==
    Cardinality({i \in 1..Len(ops) :
        ops[i].op \notin {"create_meeting", "create_person", "create_topic",
                          "create_decision", "create_action_item", "create_commitment"}})

\* the stats dictionary build_graph(e) returns
BuildStats(e) ==
    [meetings |-> 1, people |-> Len(e.people), topics |-> Len(e.topics),
     decisions |-> Len(e.decisions), action_items |-> Len(e.action_items),
     commitments |-> Len(e.commitments), relationships |-> LinkCount(BuildOps(e))]

\* the graph after a build_graph(e) that no store failure interrupts
BuildGraphOp(g, e) == ApplyOps(g, BuildOps(e), Len(BuildOps(e)))

\* the writes of a build_graph undone when one of its calls fails
BuildWritesRolledBack(g, ops, k) == IF k < Len(ops) THEN g ELSE ApplyOps(g, ops, k)

\* the graph a build_graph leaves that made the calls ops on the graph g and
\* had the first k of them served: each call is a run_query of its own, whose
\* write stays whatever the later calls do
BuildWrites(g, ops, k) == ApplyOps(g, ops, k)

\* build_graph(e).  k is where the store stops the call: -1 when connect()
\* fails verify_connectivity, k < Len(ops) when the store raises on call k + 1
\* after serving the first k, Len(ops) when every call is served
build_graph ==
    \E e \in Extractions :
      LET ops == BuildOps(e)
      IN  \E k \in (-1)..Len(ops) :
            /\ builds < MaxBuilds
            /\ k = -1 => ~gb_connected /\ ~gb_driver
            /\ builds' = builds + 1
            /\ gb_driver' = TRUE
            /\ gb_connected' = (gb_connected \/ k >= 0)
            /\ LET n == IF k < 0 THEN 0 ELSE k
                   g == BuildWrites(Current, ops, n)
               IN  /\ nodes' = g.nodes
                   /\ rels' = g.rels
                   /\ upserts' = NoteOps(upserts, ops, n)
            /\ last_build' = [extraction |-> e, applied |-> k,
                              outcome |-> IF k = Len(ops) THEN Ok(BuildStats(e))
                                          ELSE Raise(Unavailable)]
            /\ sessions' =
                  IF k < 0 THEN sessions
                  ELSE LET served == SessionsAfter(0, RunQuery(TRUE, "none", Ok(<<>>)).events)
                           failed == SessionsAfter(0, RunQuery(TRUE, "run",
                                                               Raise(Unavailable)).events)
                       IN  sessions + k * served + (IF k < Len(ops) THEN failed ELSE 0)
            /\ UNCHANGED <<last_run, queryVars, extractVars, callVars>>

\* GraphBuilderAgent.close()
gb_close ==
    /\ gb_connected
    /\ gb_connected' = FALSE
    /\ gb_driver' = FALSE
    /\ UNCHANGED <<nodes, rels, upserts, last_build, builds, queryVars, extractVars, clientVars, callVars>>

BuildNext ==
    \/ build_graph
    \/ clear_database
    \/ gb_close

BuildSpec == Init /\ [][BuildNext]_vars

(***************************************************************************)
(* ExtractorAgent: extract under @retry(stop_after_attempt(3),             *)
(* wait_exponential(multiplier=1, min=2, max=10)), and extract_safe        *)
(***************************************************************************)

StopAfterAttempt == 3
WaitMultiplier == 1
WaitMin == 2
WaitMax == 10

Max(a, b) == IF a >= b THEN a ELSE b
Min(a, b) == IF a <= b THEN a ELSE b

\* wait_exponential: the seconds slept after the failed attempt number attempt
WaitExponential(attempt) ==
    Max(Max(0, WaitMin), Min(WaitMultiplier * 2 ^ (attempt - 1), WaitMax))

\* the exception the retry decorator raises when it gives up (reraise is not
\* set): a RetryError holding the last attempt, whose exception is e
RetryError(e) == <<"RetryError", e>>

\* a retry loop that stops one attempt late
RECURSIVE RetryingOneMore(_, _, _)
RetryingOneMore(outs, attempt, waits) ==
    IF outs[attempt].ok
    THEN [invocations |-> SubSeq(outs, 1, attempt), waits |-> waits,
          outcome |-> outs[attempt]]
    ELSE IF attempt > StopAfterAttempt
         THEN [invocations |-> SubSeq(outs, 1, attempt), waits |-> waits,
               outcome |-> Raise(RetryError(outs[attempt].val))]
         ELSE RetryingOneMore(outs, attempt + 1, Append(waits, WaitExponential(attempt)))

\* the retry loop around extract: outs[i] is what the i-th invocation of the
\* chain does; attempt is the number of the attempt being made and waits the
\* sleeps so far.  Yields the invocations made, the sleeps and the outcome
RECURSIVE Retrying(_, _, _)
Retrying(outs, attempt, waits) ==
    IF outs[attempt].ok
    THEN [invocations |-> SubSeq(outs, 1, attempt), waits |-> waits,
          outcome |-> outs[attempt]]
    ELSE IF attempt >= StopAfterAttempt
         THEN [invocations |-> SubSeq(outs, 1, attempt), waits |-> waits,
               outcome |-> Raise(RetryError(outs[attempt].val))]
         ELSE Retrying(outs, attempt + 1, Append(waits, WaitExponential(attempt)))

Transcripts == {"weekly sync transcript", "sprint planning transcript"}

\* what one invocation of the extraction chain may do
ChainOutcomes ==
    {Ok(e) : e \in Extractions} \cup {Raise("RateLimitError"), Raise("APIConnectionError")}

\* what the chain does on each invocation a call could make
ChainScripts == [1..(StopAfterAttempt + 1) -> ChainOutcomes]

\* extract(transcript)
extract ==
    \E transcript \in Transcripts, outs \in ChainScripts :
        LET r == Retrying(outs, 1, <<>>)
        IN  /\ ext_call' = [api |-> "extract", transcript |-> transcript,
                            invocations |-> r.invocations, waits |-> r.waits,
                            outcome |-> r.outcome, printed |-> None]
            /\ UNCHANGED <<queryVars, graphVars, clientVars, callVars>>

\* extract_safe without its except clause
ExtractSafeNoExcept(outcome) == outcome

\* what extract_safe does with the outcome of extract: the extraction is
\* returned, any exception becomes None
ExtractSafe(outcome) == IF outcome.ok THEN outcome ELSE Ok(None)

\* extract_safe(transcript)
extract_safe ==
    \E transcript \in Transcripts, outs \in ChainScripts :
        LET r == Retrying(outs, 1, <<>>)
        IN  /\ ext_call' = [api |-> "extract_safe", transcript |-> transcript,
                            invocations |-> r.invocations, waits |-> r.waits,
                            outcome |-> ExtractSafe(r.outcome),
                            printed |-> IF r.outcome.ok THEN None
                                        ELSE <<"Extraction failed: ", r.outcome.val>>]
            /\ UNCHANGED <<queryVars, graphVars, clientVars, callVars>>

ExtractNext ==
    \/ extract
    \/ extract_safe

ExtractSpec == Init /\ [][ExtractNext]_vars

(***************************************************************************)
(* Specifications of the query agent                                       *)
(***************************************************************************)

QueryNext ==
    \/ query(Questions, CypherOutputs)
    \/ clear_history
    \/ qa_connect
    \/ qa_close

QuerySpec == Init /\ [][QueryNext]_vars

\* queries on a graph the client calls fill, the translation model returning
\* any statement
PipelineNext ==
    \/ query({"What decisions were made?"}, CypherOutputs \cup WriteOutputs)
    \/ create_meeting({None})
    \/ create_decision
    \/ link_meeting_to_decision

PipelineSpec == Init /\ [][PipelineNext]_vars

(***************************************************************************)
(* QueryAgent.generate_cypher applied to the texts of the translation      *)
(* model                                                                   *)
(***************************************************************************)

\* statements the translation model writes: one with WHERE ... CONTAINS, one
\* with an exact-match property map on a name, one that quotes a fenced word
QueryTexts ==
    { <<"M", "A", "T", "C", "H", " ", "(", "p", ")", " ", "W", "H", "E", "R", "E", " ", "p", ".", "n", "a", "m", "e", " ", "C", "O", "N", "T", "A", "I", "N", "S", " ", "'", "a", "l", "'", " ", "R", "E", "T", "U", "R", "N", " ", "p">>,
      <<"M", "A", "T", "C", "H", " ", "(", "p", ":", "P", "e", "r", "s", "o", "n", " ", "{", "n", "a", "m", "e", ":", " ", "'", "A", "l", "'", "}", ")", " ", "R", "E", "T", "U", "R", "N", " ", "p">>,
      <<"s", "e", "e", " ">> \o Fence \o <<"M">> \o Fence }

\* whitespace the model puts around its text and inside a fence
Margins == { <<>>, <<" ">>, <<"\n">> }
Gaps == { <<>>, <<"\n">> }

\* a text of the translation model, by its parts: the statement text, fenced
\* or not, the fence with the language tag or not, and the whitespace around
ModelText(lead, fenced, tagged, gap, text, trail) ==
    [fenced |-> fenced, tagged |-> tagged, text |-> text,
     raw |-> IF fenced
             THEN lead \o Fence \o (IF tagged THEN CypherTag ELSE <<>>) \o gap
                       \o text \o gap \o Fence \o trail
             ELSE lead \o text \o trail]

\* a fenced statement has no fence inside
ModelTexts ==
    { m \in { ModelText(lead, f[1], f[2], gap, text, trail) :
                lead \in Margins,
                f \in {<<FALSE, FALSE>>, <<TRUE, FALSE>>, <<TRUE, TRUE>>},
                gap \in Gaps, trail \in Margins,
                text \in QueryTexts } :
        ~(m.fenced /\ Find(m.text, Fence) >= 0) }

\* generate_cypher(question) with the model returning the text call_args.raw,
\* or failing
generate_cypher ==
    \E served \in BOOLEAN :
        /\ call_result' = IF served THEN Ok(CleanCypher(call_args.raw))
                          ELSE Raise("RateLimitError")
        /\ UNCHANGED <<call_args, queryVars, extractVars, graphVars, clientVars>>

TranslateInit ==
    /\ QueryInit
    /\ GraphInit
    /\ ext_call = NoExtract
    /\ ClientInit
    /\ call_args \in ModelTexts
    /\ call_result = NotCalled

TranslateNext == generate_cypher

TranslateSpec == TranslateInit /\ [][TranslateNext]_vars

(***************************************************************************)
(* AnalyzerAgent._parse_deadline.  A date is the number of days it lies    *)
(* after Monday 2024-01-15, the reference date of the tests, and a return  *)
(* value is an Optional: a date or none.                                   *)
(***************************************************************************)

DaysPerWeek == 7

\* the days dictionary, in the order its items are iterated
Days ==
    << [day_name |-> <<"m", "o", "n", "d", "a", "y">>, day_num |-> 0],
       [day_name |-> <<"t", "u", "e", "s", "d", "a", "y">>, day_num |-> 1],
       [day_name |-> <<"w", "e", "d", "n", "e", "s", "d", "a", "y">>, day_num |-> 2],
       [day_name |-> <<"t", "h", "u", "r", "s", "d", "a", "y">>, day_num |-> 3],
       [day_name |-> <<"f", "r", "i", "d", "a", "y">>, day_num |-> 4],
       [day_name |-> <<"s", "a", "t", "u", "r", "d", "a", "y">>, day_num |-> 5],
       [day_name |-> <<"s", "u", "n", "d", "a", "y">>, day_num |-> 6] >>

\* datetime.weekday(): 0 for Monday .. 6 for Sunday
Weekday(date) == date % DaysPerWeek

SomeDate(date) == [some |-> TRUE, day |-> date]
NoDate == [some |-> FALSE, day |-> 0]

\* days_ahead without the step to the week after
DaysAheadNoWrap(day_num, current_day) == day_num - current_day

\* days_ahead with the reference's own weekday counted as today
DaysAheadSameDay(day_num, current_day) ==
    LET days_ahead == day_num - current_day
    IN  IF days_ahead < 0 THEN days_ahead + DaysPerWeek ELSE days_ahead

\* days_ahead, from the number of the named day and the reference's weekday
DaysAhead(day_num, current_day) ==
    LET days_ahead == day_num - current_day
    IN  IF days_ahead <= 0 THEN days_ahead + DaysPerWeek ELSE days_ahead

\* the index in Days of the first day, from the k-th on, whose name occurs in
\* deadline_lower, or 0
RECURSIVE FirstDay(_, _)
FirstDay(deadline_lower, k) ==
    IF k > Len(Days) THEN 0
    ELSE IF Contains(deadline_lower, Days[k].day_name) THEN k
    ELSE FirstDay(deadline_lower, k + 1)

Today == <<"t", "o", "d", "a", "y">>
Eod == <<"e", "o", "d">>
Tomorrow == <<"t", "o", "m", "o", "r", "r", "o", "w">>
NextWeekTerm == <<"n", "e", "x", "t", " ", "w", "e", "e", "k">>
EndOfWeek == <<"e", "n", "d", " ", "o", "f", " ", "w", "e", "e", "k">>

\* the relative terms without the end of week
RelativeTermNoEndOfWeek(deadline_lower, reference_date) ==
    IF Contains(deadline_lower, Today) \/ Contains(deadline_lower, Eod)
    THEN SomeDate(reference_date)
    ELSE IF Contains(deadline_lower, Tomorrow) THEN SomeDate(reference_date + 1)
    ELSE IF Contains(deadline_lower, NextWeekTerm) THEN SomeDate(reference_date + 7)
    ELSE NoDate

\* the if/elif chain of the relative terms, and the final return None
RelativeTerm(deadline_lower, reference_date) ==
    IF Contains(deadline_lower, Today) \/ Contains(deadline_lower, Eod)
    THEN SomeDate(reference_date)
    ELSE IF Contains(deadline_lower, Tomorrow) THEN SomeDate(reference_date + 1)
    ELSE IF Contains(deadline_lower, NextWeekTerm) THEN SomeDate(reference_date + 7)
    ELSE IF Contains(deadline_lower, EndOfWeek)
         THEN SomeDate(reference_date + ((4 - Weekday(reference_date)) % DaysPerWeek))
    ELSE NoDate

\* _parse_deadline(deadline_str, reference_date)
ParseDeadline(deadline_str, reference_date) ==
    LET deadline_lower == Strip(ToLower(deadline_str))
        k == FirstDay(deadline_lower, 1)
    IN  IF k > 0
        THEN SomeDate(reference_date
                        + DaysAhead(Days[k].day_num, Weekday(reference_date)))
        ELSE RelativeTerm(deadline_lower, reference_date)

\* the latest reference date _parse_deadline is applied to
MaxReferenceDay == 13

\* the reference dates: two weeks from Monday 2024-01-15
ReferenceDates == 0..MaxReferenceDay

\* the deadline texts _parse_deadline is applied to
DeadlineTexts ==
    { <<"F", "r", "i", "d", "a", "y">>,
      <<"F", "R", "I", "D", "A", "Y">>,
      <<"f", "r", "i", "d", "a", "y">>,
      <<"f", "R", "i", "D", "a", "Y">>,
      <<" ", "b", "y", " ", "F", "r", "i", "d", "a", "y", " ">>,
      <<"M", "o", "n", "d", "a", "y">>,
      <<"M", "O", "N", "D", "A", "Y">>,
      <<"T", "u", "e", "s", "d", "a", "y">>,
      <<"t", "u", "e", "s", "d", "a", "y">>,
      <<"W", "e", "d", "n", "e", "s", "d", "a", "y">>,
      <<"T", "h", "u", "r", "s", "d", "a", "y">>,
      <<"T", "H", "U", "R", "S", "D", "A", "Y">>,
      <<"S", "a", "t", "u", "r", "d", "a", "y">>,
      <<"s", "u", "n", "d", "a", "y">>,
      <<"S", "u", "n", "d", "a", "y">>,
      <<"F", "r", "i", "d", "a", "y", " ", "o", "r", " ", "M", "o", "n", "d", "a", "y">>,
      <<"t", "o", "d", "a", "y">>,
      <<"T", "o", "d", "a", "y">>,
      <<"E", "O", "D">>,
      <<"e", "o", "d">>,
      <<"b", "y", " ", "E", "O", "D">>,
      <<"t", "o", "m", "o", "r", "r", "o", "w">>,
      <<"T", "o", "m", "o", "r", "r", "o", "w">>,
      <<"T", "O", "M", "O", "R", "R", "O", "W">>,
      <<"n", "e", "x", "t", " ", "w", "e", "e", "k">>,
      <<"N", "e", "x", "t", " ", "W", "e", "e", "k">>,
      <<"e", "n", "d", " ", "o", "f", " ", "w", "e", "e", "k">>,
      <<"E", "n", "d", " ", "o", "f", " ", "W", "e", "e", "k">>,
      <<"t", "o", "d", "a", "y", " ", "o", "r", " ", "t", "o", "m", "o", "r", "r", "o", "w">>,
      <<"t", "o", "m", "o", "r", "r", "o", "w", ",", " ", "n", "e", "x", "t", " ", "w", "e", "e", "k", " ", "a", "t", " ", "t", "h", "e", " ", "l", "a", "t", "e", "s", "t">>,
      <<"Q", "3">>,
      <<"A", "S", "A", "P">>,
      <<>>,
      <<"n", "e", "x", "t", " ", "s", "p", "r", "i", "n", "t">> }

\* _parse_deadline(call_args.deadline_str, call_args.reference_date)
parse_deadline ==
    /\ call_result' = Ok(ParseDeadline(call_args.deadline_str, call_args.reference_date))
    /\ UNCHANGED <<call_args, queryVars, extractVars, graphVars, clientVars>>

DeadlineInit ==
    /\ QueryInit
    /\ GraphInit
    /\ ext_call = NoExtract
    /\ ClientInit
    /\ call_args \in [deadline_str : DeadlineTexts, reference_date : ReferenceDates]
    /\ call_result = NotCalled

DeadlineNext == parse_deadline

DeadlineSpec == DeadlineInit /\ [][DeadlineNext]_vars

(***************************************************************************)
(* AnalyzerAgent.get_deadline_status.  A row of the query is the record of *)
(* its columns that are not null.                                          *)
(***************************************************************************)

\* the list get_deadline_status puts the row item in, today being
\* datetime.now()
DeadlineCategory(item, today) ==
    IF "deadline" \notin DOMAIN item THEN "no_deadline"
    ELSE IF item.deadline = <<>> THEN "no_deadline"
    ELSE LET deadline_date == ParseDeadline(item.deadline, today)
         IN  IF deadline_date.some
             THEN LET days_until == deadline_date.day - today
                  IN  IF days_until < 0 THEN "overdue"
                      ELSE IF days_until <= 2 THEN "due_soon"
                      ELSE "upcoming"
             ELSE "upcoming"

\* the dictionary get_deadline_status returns for the rows results
GetDeadlineStatus(results, today) ==
    [c \in {"overdue", "due_soon", "upcoming", "no_deadline"} |->
        SelectSeq(results, LAMBDA item : DeadlineCategory(item, today) = c)]

\* the most rows the query of get_deadline_status returns
MaxItems == 2

\* the rows: an action item with one of the deadlines, or with none
ItemRows ==
    { [task |-> "Update the roadmap"] }
    \cup [ task : {"Update the roadmap"},
           deadline : { <<"F", "r", "i", "d", "a", "y">>,
                        <<"m", "o", "n", "d", "a", "y">>,
                        <<"t", "o", "d", "a", "y">>,
                        <<"E", "O", "D">>,
                        <<"t", "o", "m", "o", "r", "r", "o", "w">>,
                        <<"n", "e", "x", "t", " ", "w", "e", "e", "k">>,
                        <<"e", "n", "d", " ", "o", "f", " ", "w", "e", "e", "k">>,
                        <<"Q", "3">>,
                        <<>> } ]

\* get_deadline_status() with the query returning call_args.results on the
\* day call_args.today, or the store failing
get_deadline_status ==
    \E served \in BOOLEAN :
        /\ call_result' = IF served
                          THEN Ok(GetDeadlineStatus(call_args.results, call_args.today))
                          ELSE Raise(Unavailable)
        /\ UNCHANGED <<call_args, queryVars, extractVars, graphVars, clientVars>>

StatusInit ==
    /\ QueryInit
    /\ GraphInit
    /\ ext_call = NoExtract
    /\ ClientInit
    /\ call_args \in [ results : UNION {[1..n -> ItemRows] : n \in 0..MaxItems},
                       today : ReferenceDates ]
    /\ call_result = NotCalled

StatusNext == get_deadline_status

StatusSpec == StatusInit /\ [][StatusNext]_vars

(***************************************************************************)
(* utils.error_handling.get_user_friendly_error.  A message is the         *)
(* sequence of the pieces of text it is made of.                           *)
(***************************************************************************)

\* ERROR_MESSAGES
ERROR_MESSAGES ==
    [ GROQ_API_KEY |-> <<"Groq API key not configured. Please add GROQ_API_KEY to your .env file.">>,
      NEO4J_CONNECTION |-> <<"Cannot connect to Neo4j. Make sure Neo4j Desktop is running.">>,
      NEO4J_AUTH |-> <<"Neo4j authentication failed. Check your username and password in .env.">>,
      RATE_LIMIT |-> <<"API rate limit exceeded. Please wait a moment and try again.">>,
      TOKEN_LIMIT |-> <<"Transcript is too long. Try with a shorter meeting transcript.">>,
      INVALID_CYPHER |-> <<"Could not generate a valid query for your question. Try rephrasing.">>,
      EMPTY_GRAPH |-> <<"No data in the knowledge graph. Process some meeting transcripts first.">>,
      NETWORK |-> <<"Network error. Check your internet connection.">> ]

P_groq_api_key == <<"g", "r", "o", "q", "_", "a", "p", "i", "_", "k", "e", "y">>
P_api_key == <<"a", "p", "i", "_", "k", "e", "y">>
P_connection_refused == <<"c", "o", "n", "n", "e", "c", "t", "i", "o", "n", " ", "r", "e", "f", "u", "s", "e", "d">>
P_failed_to_establish == <<"f", "a", "i", "l", "e", "d", " ", "t", "o", " ", "e", "s", "t", "a", "b", "l", "i", "s", "h">>
P_authentication == <<"a", "u", "t", "h", "e", "n", "t", "i", "c", "a", "t", "i", "o", "n">>
P_unauthorized == <<"u", "n", "a", "u", "t", "h", "o", "r", "i", "z", "e", "d">>
P_rate_limit == <<"r", "a", "t", "e", " ", "l", "i", "m", "i", "t">>
P_429 == <<"4", "2", "9">>
P_token == <<"t", "o", "k", "e", "n">>
P_limit == <<"l", "i", "m", "i", "t">>
P_exceed == <<"e", "x", "c", "e", "e", "d">>
P_syntax_error == <<"s", "y", "n", "t", "a", "x", " ", "e", "r", "r", "o", "r">>
P_cypher == <<"c", "y", "p", "h", "e", "r">>
P_no_data == <<"n", "o", " ", "d", "a", "t", "a">>
P_empty == <<"e", "m", "p", "t", "y">>
P_network == <<"n", "e", "t", "w", "o", "r", "k">>
P_timeout == <<"t", "i", "m", "e", "o", "u", "t">>

\* get_user_friendly_error with the rate limit looked for after the token limit
GetUserFriendlyErrorTokenFirst(error) ==
    LET error_str == ToLower(error)
        has(p) == Contains(error_str, p)
    IN  IF has(P_groq_api_key) \/ has(P_api_key) THEN ERROR_MESSAGES.GROQ_API_KEY
        ELSE IF has(P_connection_refused) \/ has(P_failed_to_establish)
             THEN ERROR_MESSAGES.NEO4J_CONNECTION
        ELSE IF has(P_authentication) \/ has(P_unauthorized) THEN ERROR_MESSAGES.NEO4J_AUTH
        ELSE IF has(P_token) /\ (has(P_limit) \/ has(P_exceed))
             THEN ERROR_MESSAGES.TOKEN_LIMIT
        ELSE IF has(P_rate_limit) \/ has(P_429) THEN ERROR_MESSAGES.RATE_LIMIT
        ELSE IF has(P_syntax_error) \/ has(P_cypher) THEN ERROR_MESSAGES.INVALID_CYPHER
        ELSE IF has(P_no_data) \/ has(P_empty) THEN ERROR_MESSAGES.EMPTY_GRAPH
        ELSE IF has(P_network) \/ has(P_timeout) THEN ERROR_MESSAGES.NETWORK
        ELSE <<"An error occurred: ">> \o error

\* get_user_friendly_error(error), error being the text str(error)
GetUserFriendlyError(error) ==
    LET error_str == ToLower(error)
        has(p) == Contains(error_str, p)
    IN  IF has(P_groq_api_key) \/ has(P_api_key) THEN ERROR_MESSAGES.GROQ_API_KEY
        ELSE IF has(P_connection_refused) \/ has(P_failed_to_establish)
             THEN ERROR_MESSAGES.NEO4J_CONNECTION
        ELSE IF has(P_authentication) \/ has(P_unauthorized) THEN ERROR_MESSAGES.NEO4J_AUTH
        ELSE IF has(P_rate_limit) \/ has(P_429) THEN ERROR_MESSAGES.RATE_LIMIT
        ELSE IF has(P_token) /\ (has(P_limit) \/ has(P_exceed))
             THEN ERROR_MESSAGES.TOKEN_LIMIT
        ELSE IF has(P_syntax_error) \/ has(P_cypher) THEN ERROR_MESSAGES.INVALID_CYPHER
        ELSE IF has(P_no_data) \/ has(P_empty) THEN ERROR_MESSAGES.EMPTY_GRAPH
        ELSE IF has(P_network) \/ has(P_timeout) THEN ERROR_MESSAGES.NETWORK
        ELSE <<"An error occurred: ">> \o error

\* pieces of the error texts get_user_friendly_error is applied to
ErrorPieces ==
    { <<>>,
      <<"G", "R", "O", "Q", "_", "A", "P", "I", "_", "K", "E", "Y", " ", "i", "s", " ", "n", "o", "t", " ", "s", "e", "t">>,
      <<"I", "n", "v", "a", "l", "i", "d", " ", "a", "p", "i", "_", "k", "e", "y">>,
      <<"C", "o", "n", "n", "e", "c", "t", "i", "o", "n", " ", "r", "e", "f", "u", "s", "e", "d">>,
      <<"F", "a", "i", "l", "e", "d", " ", "t", "o", " ", "e", "s", "t", "a", "b", "l", "i", "s", "h", " ", "a", " ", "n", "e", "w", " ", "c", "o", "n", "n", "e", "c", "t", "i", "o", "n">>,
      <<"U", "n", "a", "u", "t", "h", "o", "r", "i", "z", "e", "d">>,
      <<"a", "u", "t", "h", "e", "n", "t", "i", "c", "a", "t", "i", "o", "n", " ", "f", "a", "i", "l", "u", "r", "e">>,
      <<"4", "2", "9">>,
      <<"R", "a", "t", "e", " ", "l", "i", "m", "i", "t", " ", "r", "e", "a", "c", "h", "e", "d">>,
      <<"t", "o", "k", "e", "n">>,
      <<"l", "i", "m", "i", "t">>,
      <<"e", "x", "c", "e", "e", "d", "e", "d">>,
      <<"S", "y", "n", "t", "a", "x", " ", "E", "r", "r", "o", "r">>,
      <<"C", "y", "p", "h", "e", "r">>,
      <<"l", "i", "s", "t", " ", "i", "s", " ", "e", "m", "p", "t", "y">>,
      <<"N", "o", " ", "d", "a", "t", "a">>,
      <<"N", "e", "t", "w", "o", "r", "k", " ", "u", "n", "r", "e", "a", "c", "h", "a", "b", "l", "e">>,
      <<"T", "i", "m", "e", "o", "u", "t">>,
      <<"b", "o", "o", "m">> }

\* the error texts: a piece, or two pieces with a colon between them
ErrorTexts ==
    ErrorPieces \cup { a \o <<":", " ">> \o b : a, b \in ErrorPieces \ {<<>>} }

\* get_user_friendly_error(call_args)
get_user_friendly_error ==
    /\ call_result' = Ok(GetUserFriendlyError(call_args))
    /\ UNCHANGED <<call_args, queryVars, extractVars, graphVars, clientVars>>

ErrorInit ==
    /\ QueryInit
    /\ GraphInit
    /\ ext_call = NoExtract
    /\ ClientInit
    /\ call_args \in ErrorTexts
    /\ call_result = NotCalled

ErrorNext == get_user_friendly_error

ErrorSpec == ErrorInit /\ [][ErrorNext]_vars

(***************************************************************************)
(* Startup: config.py and main() of app.py on a first load.  env is the    *)
(* environment: the two secrets (the empty text when absent), whether the  *)
(* LLM client accepts an empty key at construction, whether the store      *)
(* checks the password, and whether it is reachable at each connect.       *)
(***************************************************************************)

\* Config.validate()
Validate(env) ==
    IF env.GROQ_API_KEY = "" THEN Raise("GROQ_API_KEY is required. Set it in .env file.")
    ELSE IF env.NEO4J_PASSWORD = ""
         THEN Raise("NEO4J_PASSWORD is required. Set it in .env file.")
    ELSE Ok(TRUE)

\* the statements of the try block of main(), in order
StartupSteps ==
    << [do |-> "construct", agent |-> "extractor", llm |-> TRUE],
       [do |-> "construct", agent |-> "graph_builder", llm |-> FALSE],
       [do |-> "connect", agent |-> "graph_builder", llm |-> FALSE],
       [do |-> "construct", agent |-> "query_agent", llm |-> TRUE],
       [do |-> "connect", agent |-> "query_agent", llm |-> FALSE],
       [do |-> "construct", agent |-> "analyzer", llm |-> TRUE],
       [do |-> "connect", agent |-> "analyzer", llm |-> FALSE],
       [do |-> "construct", agent |-> "summary_agent", llm |-> TRUE],
       [do |-> "connect", agent |-> "summary_agent", llm |-> FALSE] >>

\* what the k-th statement of the try block does: None, or the exception
StartupStep(env, k) ==
    LET step == StartupSteps[k]
    IN  IF step.do = "construct"
        THEN IF step.llm /\ env.GROQ_API_KEY = "" /\ ~env.empty_key_accepted
             THEN "GroqError" ELSE None
        ELSE IF ~env.reachable[step.agent] THEN Unavailable
             ELSE IF env.auth_checked /\ env.NEO4J_PASSWORD = "" THEN "AuthError"
             ELSE None

\* the try block of main() from its k-th statement on, done being the
\* statements executed so far
RECURSIVE Startup(_, _, _)
Startup(env, k, done) ==
    IF k > Len(StartupSteps)
    THEN [done |-> done, connected |-> TRUE, error |-> None]
    ELSE LET e == StartupStep(env, k)
         IN  IF e = None
             THEN Startup(env, k + 1, Append(done, StartupSteps[k]))
             ELSE [done |-> Append(done, StartupSteps[k]), connected |-> FALSE,
                   error |-> <<"Could not connect to Neo4j: ", e>>]

\* main() with st.session_state.connected False: validate() is not called
Main(env) == Startup(env, 1, <<>>)

Environments ==
    [ GROQ_API_KEY : {"", "gsk_1"},
      NEO4J_PASSWORD : {"", "secret"},
      empty_key_accepted : BOOLEAN,
      auth_checked : BOOLEAN,
      reachable : [{"graph_builder", "query_agent", "analyzer", "summary_agent"} -> BOOLEAN] ]

\* main() on the first load, in the environment call_args
main ==
    /\ call_result' = Ok(Main(call_args))
    /\ UNCHANGED <<call_args, queryVars, extractVars, graphVars, clientVars>>

MainInit ==
    /\ QueryInit
    /\ GraphInit
    /\ ext_call = NoExtract
    /\ ClientInit
    /\ call_args \in Environments
    /\ call_result = NotCalled

MainNext == main

MainSpec == MainInit /\ [][MainNext]_vars

\* the longest history _format_chat_history is applied to
MaxHistLen == 6

\* turns of the histories _format_chat_history is applied to
TurnSamples ==
    { Turn("What decisions were made?", <<"o", "k">>, <<"M", "1">>),
      Turn("Who attended the weekly sync?", LongAnswer, <<"M", "2">>),
      Turn("What did she commit to?", <<"n", "o">>, <<"M", "2">>) }

Histories == UNION {[1..n -> TurnSamples] : n \in 0..MaxHistLen}

\* the agent after any run of queries that left it a history of sample turns
FormatInit ==
    /\ chat_history \in Histories
    /\ completed = Len(chat_history)
    /\ qa_connected = FALSE
    /\ qa_driver = FALSE
    /\ last_query = NoCall
    /\ formatted = NotFormatted
    /\ GraphInit
    /\ ext_call = NoExtract
    /\ ClientInit
    /\ CallInit

FormatNext == format_chat_history

FormatSpec == FormatInit /\ [][FormatNext]_vars

(***************************************************************************)
(* _format_chat_history on any list of dictionaries: the turns query()     *)
(* records, and the role/content messages of the tests.                    *)
(***************************************************************************)

\* the first key, of question and answer in this order, that the dictionary
\* lacks, or None
MissingKey(turn) ==
    IF "question" \notin DOMAIN turn THEN "question"
    ELSE IF "answer" \notin DOMAIN turn THEN "answer"
    ELSE None

\* _format_chat_history applied to the list h: turn['question'] and
\* turn['answer'] raise KeyError on the first dictionary of the last five
\* that lacks the key
FormatAnyHistory(h) ==
    LET w == LastN(h, HistoryWindow)
        lacking == {i \in 1..Len(w) : MissingKey(w[i]) # None}
    IN  IF lacking = {} THEN Ok(FormatChatHistory(h))
        ELSE LET i == CHOOSE i \in lacking : \A j \in lacking : i <= j
             IN  IF MissingKey(w[i]) = "question" THEN Raise("KeyError: 'question'")
                 ELSE Raise("KeyError: 'answer'")

\* the longest list of messages _format_chat_history is applied to
MaxMessages == 3

\* role/content messages
Messages ==
    [role : {"user", "assistant"}, content : {"Hello", "Hi there", "What was decided?"}]

MessageHistories == UNION {[1..n -> Messages \cup TurnSamples] : n \in 0..MaxMessages}

\* agent.chat_history = call_args; agent._format_chat_history()
format_messages ==
    /\ call_result' = FormatAnyHistory(call_args)
    /\ UNCHANGED <<call_args, queryVars, extractVars, graphVars, clientVars>>

MessagesInit ==
    /\ QueryInit
    /\ GraphInit
    /\ ext_call = NoExtract
    /\ ClientInit
    /\ call_args \in MessageHistories
    /\ call_result = NotCalled

MessagesNext == format_messages

MessagesSpec == MessagesInit /\ [][MessagesNext]_vars

(***************************************************************************)
(* Properties                                                              *)
(***************************************************************************)

\* the exceptions the store may raise while running a query
StoreErrors == {o.val : o \in {x \in StoreOutcomes : ~x.ok}}

\* the answers query() can return: the texts of the synthesis model, stripped
Answers == {Strip(a.val) : a \in {x \in AnswerOutputs : x.ok}}

\* C1: when the store raises while running the generated query, query() is not
\* left by that exception: execute_query yields a single row carrying the error
\* marker, the answer is synthesized from the "Query error" text formatted from
\* that row, it is returned, and the turn is recorded in the history.
C1_StoreFailureAnswered ==
    [][ /\ last_query'.kind = "raised" => last_query'.error \notin StoreErrors
        /\ last_query'.kind = "returned" /\ last_query'.store_raised
             /\ chat_history' # chat_history /\ chat_history' # <<>> =>
              /\ Len(last_query'.raw_results) = 1
              /\ HasKey(last_query'.raw_results[1], "error")
              /\ ValueOf(last_query'.raw_results[1], "error") \in StoreErrors
              /\ last_query'.formatted_results =
                    <<"Query error: ", ValueOf(last_query'.raw_results[1], "error")>>
              /\ last_query'.answer \in Answers
              /\ chat_history' =
                    Append(chat_history,
                           Turn(last_query'.question, last_query'.answer,
                                last_query'.cypher)) ]_vars

\* a query() whose store call raised has returned and its turn is in the history
C1_Witness ==
    /\ last_query.kind = "returned"
    /\ last_query.store_raised
    /\ Len(chat_history) = 2

\* C2: the history is append-only.  A step in which a query() returns appends
\* exactly the turn of that call (question, answer, generated query) at the end;
\* a step in which none returns leaves the history as it is, unless it is
\* clear_history, which empties it; and the history holds as many turns as
\* queries returned since the last clear.
C2_AppendOnly ==
    [][ /\ completed' = completed + 1 =>
              /\ last_query'.kind = "returned"
              /\ chat_history' =
                    Append(chat_history,
                           Turn(last_query'.question, last_query'.answer,
                                last_query'.cypher))
        /\ completed' # completed + 1 =>
              \/ chat_history' = chat_history /\ completed' = completed
              \/ chat_history' = <<>> /\ completed' = 0
        /\ Len(chat_history') = completed' ]_vars

\* three queries returned, the turns in call order differ from one another
C2_Witness ==
    /\ completed = 3
    /\ Len(chat_history) = 3
    /\ chat_history[1].question # chat_history[2].question
    /\ chat_history[2].cypher # chat_history[3].cypher
    /\ last_query.kind = "returned"
    /\ chat_history[3].question = last_query.question

\* the turns a formatted history shows, read off its lines: line 2j-1 is the
\* question line and line 2j the answer line of the j-th turn shown
ShownQuestions(f) == [j \in 1..(Len(f) \div 2) |-> f[2 * j - 1][4]]
ShownAnswers(f) == [j \in 1..(Len(f) \div 2) |-> f[2 * j][4]]

\* C3: a call of _format_chat_history on a history of n turns shows, for n > 5,
\* exactly the turns n-4..n in their order and no older one, and for
\* 1 <= n <= 5 all n turns; the stored history is left with all its n turns.
C3_LastFiveShown ==
    [][ formatted' # formatted =>
          LET n == Len(chat_history)
              m == IF n > 5 THEN 5 ELSE n
          IN  /\ chat_history' = chat_history
              /\ n > 0 =>
                    /\ Len(formatted') = 2 * m
                    /\ ShownQuestions(formatted') =
                          [j \in 1..m |-> chat_history[n - m + j].question]
                    /\ ShownAnswers(formatted') =
                          [j \in 1..m |-> Take(chat_history[n - m + j].answer, 200)]
                    /\ \A j \in 1..m : /\ formatted'[2 * j - 1][2] = j
                                       /\ formatted'[2 * j][2] = j ]_vars

\* a history of 6 turns, whose first turn differs from its second, was formatted
C3_Witness ==
    /\ Len(chat_history) = 6
    /\ chat_history[1] # chat_history[2]
    /\ Len(formatted) = 10

\* C4: a call of extract invokes the chain at most 3 times; every invocation
\* before the last one failed; when the last one succeeded the call returns its
\* result, and when it failed the call made all 3 attempts and raises.
C4_AtMostThreeAttempts ==
    ext_call.api = "extract" =>
        LET inv == ext_call.invocations
            n   == Len(inv)
        IN  /\ n >= 1 /\ n <= 3
            /\ \A i \in 1..(n - 1) : ~inv[i].ok
            /\ inv[n].ok => ext_call.outcome = inv[n]
            /\ ~inv[n].ok => n = 3 /\ ~ext_call.outcome.ok
            /\ Len(ext_call.waits) = n - 1

\* an extract that succeeded on its third attempt
C4_Witness ==
    /\ ext_call.api = "extract"
    /\ Len(ext_call.invocations) = 3
    /\ ext_call.outcome.ok

\* C5: when all 3 attempts fail, extract raises the very exception the last
\* attempt raised.
C5_ProviderFailureUnchanged ==
    ext_call.api = "extract" /\ ~ext_call.outcome.ok =>
        ext_call.outcome.val = ext_call.invocations[Len(ext_call.invocations)].val

\* the property a node of the label is identified by, and the remaining
\* attribute of the upserted labels
KeyProp(label) ==
    CASE label = "Meeting" -> "title"
      [] label \in {"Person", "Topic"} -> "name"
      [] OTHER -> "description"
AttrProp(label) ==
    CASE label = "Meeting" -> "date"
      [] label = "Person" -> "role"
      [] label = "Topic" -> "description"

\* the nodes of the label whose key is exactly key
NodesOfKey(label, key) ==
    {i \in 1..Len(nodes) : nodes[i].label = label /\ nodes[i][KeyProp(label)] = key}

\* C6: after any sequence of create_meeting, create_person and create_topic
\* calls every Meeting, Person and Topic node stems from a create call for its
\* key, and for every key (compared exactly, case-sensitively) a create call was
\* made for there is exactly one node, whose remaining attribute is the value
\* the most recent call for that key passed, None when it passed no value.
C6_UpsertKeepsOneNodePerKey ==
    /\ \A i \in 1..Len(nodes) :
          nodes[i].label \in {"Meeting", "Person", "Topic"} =>
              <<nodes[i].label, nodes[i][KeyProp(nodes[i].label)]>> \in DOMAIN upserts
    /\ \A k \in DOMAIN upserts :
          /\ Cardinality(NodesOfKey(k[1], k[2])) = 1
          /\ \A i \in NodesOfKey(k[1], k[2]) :
                nodes[i][AttrProp(k[1])] = upserts[k].attr

\* the topics "API" and "api" are two nodes, and the description of one of them
\* was cleared by a create_topic call that passed none
C6_Witness ==
    /\ Cardinality(NodesOfKey("Topic", <<"A", "P", "I">>)) = 1
    /\ Cardinality(NodesOfKey("Topic", <<"a", "p", "i">>)) = 1
    /\ \E k \in DOMAIN upserts :
          /\ k[1] = "Topic"
          /\ upserts[k].attr = None
          /\ upserts[k].prior = "Backend API docs"
          /\ \A i \in NodesOfKey(k[1], k[2]) : nodes[i].description = None

\* the link helpers: the labels and the relationship type each passes to
\* create_relationship
LinkHelpers ==
    { [name |-> "link_person_to_meeting", from_label |-> "Person",
       rel_type |-> "ATTENDED", to_label |-> "Meeting"],
      [name |-> "link_meeting_to_topic", from_label |-> "Meeting",
       rel_type |-> "DISCUSSED", to_label |-> "Topic"],
      [name |-> "link_person_to_decision", from_label |-> "Person",
       rel_type |-> "MADE", to_label |-> "Decision"],
      [name |-> "link_person_to_action_item", from_label |-> "Person",
       rel_type |-> "OWNS", to_label |-> "ActionItem"],
      [name |-> "link_person_to_commitment", from_label |-> "Person",
       rel_type |-> "COMMITTED", to_label |-> "Commitment"],
      [name |-> "link_decision_to_topic", from_label |-> "Decision",
       rel_type |-> "ABOUT", to_label |-> "Topic"],
      [name |-> "link_meeting_to_decision", from_label |-> "Meeting",
       rel_type |-> "CONTAINS", to_label |-> "Decision"],
      [name |-> "link_meeting_to_action_item", from_label |-> "Meeting",
       rel_type |-> "CONTAINS", to_label |-> "ActionItem"] }

\* the values the link helpers are called with for a node of the label
ValuesOf(label) ==
    CASE label = "Person" -> PersonValues
      [] label = "Meeting" -> TitleValues
      [] label = "Topic" -> TopicValues
      [] OTHER -> DescriptionValues

\* the call of the link helper h with the values fv and tv
LinkVia(g, h, fv, tv) ==
    CASE h.name = "link_person_to_meeting" -> LinkPersonToMeeting(g, fv, tv)
      [] h.name = "link_meeting_to_topic" -> LinkMeetingToTopic(g, fv, tv)
      [] h.name = "link_person_to_decision" -> LinkPersonToDecision(g, fv, tv)
      [] h.name = "link_person_to_action_item" -> LinkPersonToActionItem(g, fv, tv)
      [] h.name = "link_person_to_commitment" -> LinkPersonToCommitment(g, fv, tv)
      [] h.name = "link_decision_to_topic" -> LinkDecisionToTopic(g, fv, tv)
      [] h.name = "link_meeting_to_decision" -> LinkMeetingToDecision(g, fv, tv)
      [] h.name = "link_meeting_to_action_item" -> LinkMeetingToActionItem(g, fv, tv)

\* C8: after any sequence of link calls there is at most one relationship of a
\* type between an ordered pair of nodes, and a link call repeated with the same
\* arguments on the same nodes leaves the graph as the first call left it.
C8_RelationshipInsertedOnce ==
    /\ \A r \in BagToSet(rels) : CopiesIn(r, rels) = 1
    /\ \A h \in LinkHelpers :
          \A fv \in ValuesOf(h.from_label), tv \in ValuesOf(h.to_label) :
              LET once == LinkVia(Current, h, fv, tv).g
              IN  /\ LinkVia(once, h, fv, tv).g = once
                  /\ \A r \in BagToSet(once.rels) : CopiesIn(r, once.rels) = 1

\* a relationship exists, and the link call that made it, made again, matches
\* and leaves the graph unchanged
C8_Witness ==
    /\ BagCardinality(rels) >= 2
    /\ \E h \in LinkHelpers :
          \E fv \in ValuesOf(h.from_label), tv \in ValuesOf(h.to_label) :
              /\ LinkVia(Current, h, fv, tv).ret = TRUE
              /\ LinkVia(Current, h, fv, tv).g = Current

\* ignoring case, one of the two texts contains the other
Overlap(a, b) ==
    \/ \E i \in 0..(Len(a) - Len(b)) :
          \A j \in 1..Len(b) : ToLower(a)[i + j] = ToLower(b)[j]
    \/ \E i \in 0..(Len(b) - Len(a)) :
          \A j \in 1..Len(a) : ToLower(b)[i + j] = ToLower(a)[j]

\* the nodes of the label whose identifying property overlaps with the value
Overlapping(label, value) ==
    {i \in 1..Len(nodes) :
        nodes[i].label = label /\ Overlap(nodes[i][KeyProp(label)], value)}

\* C9: a create_relationship call links every pair (a, b) of nodes of the given
\* labels whose identifying properties overlap, ignoring case, with the
\* from-value and the to-value (one containing the other, either way): after
\* the call each such pair has the relationship, nothing else was added and no
\* node changed; the call returns true exactly when there is such a pair, and
\* changes nothing when either side has no match.
C9_LinksEveryOverlappingPair ==
    \A h \in LinkHelpers :
      \A fv \in ValuesOf(h.from_label), tv \in ValuesOf(h.to_label) :
        LET r == CreateRelationship(Current, h.from_label, KeyProp(h.from_label), fv,
                                    h.rel_type,
                                    h.to_label, KeyProp(h.to_label), tv)
            P == Overlapping(h.from_label, fv) \X Overlapping(h.to_label, tv)
        IN  /\ r.g.nodes = nodes
            /\ \A p \in P : BagIn(<<p[1], h.rel_type, p[2]>>, r.g.rels)
            /\ \A x \in BagToSet(r.g.rels) :
                  \/ BagIn(x, rels)
                  \/ x[2] = h.rel_type /\ <<x[1], x[3]>> \in P
            /\ \A x \in BagToSet(rels) : BagIn(x, r.g.rels)
            /\ r.ret = (P # {})
            /\ P = {} => r.g = Current

\* one link call with the person value "Lee" linked both "Lee Park" and
\* "Ashlee Kim" to the meeting "Q3", which the title value "q3 sync" contains
C9_Witness ==
    /\ \E a \in NodesOfKey("Person", <<"L", "e", "e", " ", "P", "a", "r", "k">>),
          b \in NodesOfKey("Person", <<"A", "s", "h", "l", "e", "e", " ", "K", "i", "m">>),
          m \in NodesOfKey("Meeting", <<"Q", "3">>) :
          /\ BagIn(<<a, "ATTENDED", m>>, rels)
          /\ BagIn(<<b, "ATTENDED", m>>, rels)
    /\ Overlapping("Person", <<"L", "e", "e">>) # {}
    /\ Overlapping("Person", <<"M", "i", "k", "e">>) = {}

\* the number of nodes of the label in the graph g
CountOf(g, label) == Cardinality({i \in 1..Len(g.nodes) : g.nodes[i].label = label})

\* C7: a call of create_decision, create_action_item or create_commitment adds
\* exactly one node, of that type, to whatever nodes exist, and changes nothing
\* else; so build_graph run twice on an extraction adds its decisions, action
\* items and commitments twice; and every ActionItem node has status "pending".
C7_AlwaysInsert ==
    /\ \A d \in {Go, NoGo, Ship, Deliver} :
          \A kind \in {"Decision", "ActionItem", "Commitment"} :
              LET r == CASE kind = "Decision" -> CreateDecision(Current, d)
                         [] kind = "ActionItem" ->
                               CreateActionItem(Current, d, "Friday", None)
                         [] kind = "Commitment" -> CreateCommitment(Current, d)
              IN  /\ Len(r.g.nodes) = Len(nodes) + 1
                  /\ SubSeq(r.g.nodes, 1, Len(nodes)) = nodes
                  /\ r.g.nodes[Len(nodes) + 1].label = kind
                  /\ r.g.nodes[Len(nodes) + 1].description = d
                  /\ kind = "ActionItem" => r.g.nodes[Len(nodes) + 1].status = "pending"
                  /\ r.g.rels = rels
                  /\ r.ret = Len(nodes) + 1
    /\ \A e \in Extractions :
          LET once  == BuildGraphOp(Current, e)
              twice == BuildGraphOp(once, e)
              Grown(g, l) == CountOf(g, l) - CountOf(Current, l)
          IN  /\ Grown(once, "Decision") = Len(e.decisions)
              /\ Grown(once, "ActionItem") = Len(e.action_items)
              /\ Grown(once, "Commitment") = Len(e.commitments)
              /\ Grown(twice, "Decision") = 2 * Len(e.decisions)
              /\ Grown(twice, "ActionItem") = 2 * Len(e.action_items)
              /\ Grown(twice, "Commitment") = 2 * Len(e.commitments)
    /\ \A i \in 1..Len(nodes) :
          nodes[i].label = "ActionItem" => nodes[i].status = "pending"

\* build_graph ran twice on the extraction that has every kind of entity: its
\* decision, action item and commitment are there twice, its people once
C7_Witness ==
    /\ builds = 2
    /\ last_build.outcome.ok
    /\ last_build.extraction = FullExtraction
    /\ CountOf(Current, "Decision") = 2
    /\ CountOf(Current, "ActionItem") = 2
    /\ CountOf(Current, "Commitment") = 2
    /\ CountOf(Current, "Person") = 2
    /\ \A i \in 1..Len(nodes) : nodes[i].label = "Decision" => nodes[i].description = Go

\* the number of nodes get_node_counts() reports for the label, a label it does
\* not list having none
Reported(counts, label) == IF label \in DOMAIN counts THEN counts[label] ELSE 0

\* the distinct names among the entries of a list of people or topics
NamesOf(list) == {list[i].name : i \in 1..Len(list)}

\* C10 as stated: after a build_graph(extraction) that returned, the counts read
\* back hold at least as many Person and Topic nodes as the extraction lists
\* people and topics, and the Decision, ActionItem and Commitment counts grew by
\* exactly the numbers of decisions, action items and commitments listed.
C10_CountsAtLeastListed ==
    [][ builds' = builds + 1 /\ last_build'.outcome.ok =>
          \A apoc \in BOOLEAN :
            LET e      == last_build'.extraction
                before == GetNodeCounts(Graph(nodes, rels), apoc)
                after  == GetNodeCounts(Graph(nodes', rels'), apoc)
            IN  /\ Reported(after, "Person") >= Len(e.people)
                /\ Reported(after, "Topic") >= Len(e.topics)
                /\ Reported(after, "Decision") =
                      Reported(before, "Decision") + Len(e.decisions)
                /\ Reported(after, "ActionItem") =
                      Reported(before, "ActionItem") + Len(e.action_items)
                /\ Reported(after, "Commitment") =
                      Reported(before, "Commitment") + Len(e.commitments) ]_vars

\* C10, amended: after a build_graph(extraction) that returned, the counts read
\* back hold at least as many Person and Topic nodes as the extraction has
\* distinct person names and distinct topic names, Decision, ActionItem and
\* Commitment counts of at least D, A and C, and these three counts grew by
\* exactly the numbers D, A and C of decisions, action items and commitments.
C10_CountsAtLeastDistinct ==
    [][ builds' = builds + 1 /\ last_build'.outcome.ok =>
          \A apoc \in BOOLEAN :
            LET e      == last_build'.extraction
                before == GetNodeCounts(Graph(nodes, rels), apoc)
                after  == GetNodeCounts(Graph(nodes', rels'), apoc)
            IN  /\ Reported(after, "Person") >= Cardinality(NamesOf(e.people))
                /\ Reported(after, "Topic") >= Cardinality(NamesOf(e.topics))
                /\ Reported(after, "Decision") >= Len(e.decisions)
                /\ Reported(after, "ActionItem") >= Len(e.action_items)
                /\ Reported(after, "Commitment") >= Len(e.commitments)
                /\ Reported(after, "Decision") =
                      Reported(before, "Decision") + Len(e.decisions)
                /\ Reported(after, "ActionItem") =
                      Reported(before, "ActionItem") + Len(e.action_items)
                /\ Reported(after, "Commitment") =
                      Reported(before, "Commitment") + Len(e.commitments) ]_vars

\* build_graph returned for the extraction that lists one person and one topic
\* twice, on a graph another build had filled: one Person node stands for its
\* two entries
C10_Witness ==
    /\ builds = 2
    /\ last_build.outcome.ok
    /\ last_build.extraction = RepeatingExtraction
    /\ Len(last_build.extraction.people) = 2
    /\ Cardinality(NodesOfKey("Person", LeePark)) = 1
    /\ CountOf(Current, "Topic") = 1
    /\ CountOf(Current, "Commitment") = 1
    /\ CountOf(Current, "Decision") = 2

\* every node of g is a node of h, with its label, and every relationship of g
\* is one of h
Kept(g, h) ==
    /\ Len(h.nodes) >= Len(g.nodes)
    /\ \A i \in 1..Len(g.nodes) : h.nodes[i].label = g.nodes[i].label
    /\ g.rels \sqsubseteq h.rels

StepsOf(events, e) == {i \in 1..Len(events) : events[i] = e}

\* C12: a run_query call that gets past connecting opens one session of its own
\* and closes it before it returns, whether session.run returned rows or
\* raised; what session.run raised reaches the caller as it is, as do the rows
\* it returned; a call that fails to connect opens none; and no session is open
\* between calls.
C12_SessionPerCall ==
    /\ sessions = 0
    /\ (last_run # NoRun /\ last_run.op = "run_query") =>
          LET ev == last_run.events
          IN  IF last_run.fault = "connect"
              THEN /\ StepsOf(ev, "session") = {}
                   /\ ~last_run.outcome.ok
              ELSE /\ Cardinality(StepsOf(ev, "session")) = 1
                   /\ Cardinality(StepsOf(ev, "session.close")) = 1
                   /\ \A i \in StepsOf(ev, "session"), j \in StepsOf(ev, "run"),
                         k \in StepsOf(ev, "session.close") : i < j /\ j < k
                   /\ ev[Len(ev)] = "session.close"
                   /\ last_run.outcome = last_run.store

\* a run_query call on a connected client whose statement the store rejected:
\* the caller got the store's error and no session is left open
C12_Witness ==
    /\ last_run # NoRun
    /\ last_run.op = "run_query"
    /\ last_run.had_driver
    /\ last_run.fault = "run"
    /\ last_run.outcome = Raise("CypherSyntaxError")
    /\ Len(nodes) = 2

\* C13: a query() call leaves the nodes and the relationships of the graph as
\* they were, whatever statement the translation step returned.
C13_QueryOnlyReads ==
    [][ last_query' # last_query \/ chat_history' # chat_history =>
            nodes' = nodes /\ rels' = rels ]_vars

\* an exact-match property map on a name or a title: {name: ...} or {title: ...}
ExactMatchBraces(text) ==
    \/ Find(text, <<"{", "n", "a", "m", "e", ":">>) >= 0
    \/ Find(text, <<"{", "t", "i", "t", "l", "e", ":">>) >= 0

\* C14: the query string generate_cypher returns never has the exact-match
\* curly-brace property syntax on a name or title, whatever the model wrote.
C14_NoExactMatchBraces ==
    call_result.ok => ~ExactMatchBraces(call_result.val)

\* C15: when the model's text is a statement in a triple-backtick fence, with
\* the cypher tag or without, generate_cypher returns the statement itself:
\* trimmed, without fence and without tag; when the text has no leading fence
\* it returns the text trimmed and otherwise as it was.
C15_FenceStripped ==
    call_result.ok =>
        /\ call_result.val = call_args.text
        /\ call_args.fenced =>
              /\ Find(call_result.val, Fence) < 0
              /\ ~StartsWith(call_result.val, CypherTag)
        /\ call_result.val # <<>> =>
              /\ call_result.val[1] \notin Whitespace
              /\ call_result.val[Len(call_result.val)] \notin Whitespace

\* the statement came back out of a fence with the cypher tag, a newline after
\* the tag and a blank before the fence
C15_Witness ==
    /\ call_result.ok
    /\ call_args.fenced
    /\ call_args.tagged
    /\ Len(call_args.raw) > Len(call_args.text) + 12
    /\ call_result.val = call_args.text

\* C16: clear_history leaves the history empty whatever it held, an empty one
\* included, and a query() made on the emptied history fills the translation
\* prompt and the synthesis prompt with the text an empty history is formatted
\* to, with no line of a turn recorded before.
C16_ClearHistory ==
    [][ /\ clear_history => chat_history' = <<>> /\ Len(chat_history') = 0
        /\ (chat_history = <<>> /\ Len(chat_history') = 1) =>
              /\ last_query'.kind = "returned"
              /\ last_query'.contexts = <<NoHistory, NoHistory>> ]_vars

\* a query returned on an empty history, which holds its turn alone now
C16_Witness ==
    /\ completed = 1
    /\ Len(chat_history) = 1
    /\ last_query.kind = "returned"
    /\ last_query.contexts = <<NoHistory, NoHistory>>
    /\ chat_history[1].question = last_query.question
    /\ qa_connected

\* the empty string, as the lines it joins
EmptyString == <<>>

\* C17: on an agent whose conversation history is empty, _format_chat_history
\* returns the empty string.
C17_EmptyHistoryEmptyString ==
    chat_history = <<>> /\ formatted # NotFormatted => formatted = EmptyString

\* C18: extract_safe never raises: it returns None whenever extract fails,
\* which is when the last of its attempts raised, and the extraction of the
\* invocation that succeeded whenever extract succeeds.
C18_ExtractSafeNeverRaises ==
    ext_call.api = "extract_safe" =>
        LET made == ext_call.invocations
            last == made[Len(made)]
        IN  /\ ext_call.outcome.ok
            /\ last.ok => ext_call.outcome = last /\ last.val \in Extractions
            /\ ~last.ok => ext_call.outcome.val = None

\* extract_safe returned None after every attempt of extract raised
C18_Witness ==
    /\ ext_call.api = "extract_safe"
    /\ Len(ext_call.invocations) = StopAfterAttempt
    /\ \A i \in 1..StopAfterAttempt : ~ext_call.invocations[i].ok
    /\ ext_call.outcome = Ok(None)
    /\ ext_call.printed # None

\* the numbers of the weekdays a deadline text names, in any letter case
NamedDays(deadline_str) ==
    { Days[k].day_num : k \in { j \in 1..Len(Days) :
                                  Contains(ToLower(deadline_str), Days[j].day_name) } }

\* C19: for a deadline text naming a weekday, in any letter case,
\* _parse_deadline returns the next date strictly after the reference that
\* falls on that weekday: 1 to 7 days ahead, 7 days ahead when the reference
\* is that weekday already, and 4 days ahead for 'Friday' from a Monday.
C19_NextWeekday ==
    (call_result.ok /\ NamedDays(call_args.deadline_str) # {}) =>
        LET ref == call_args.reference_date
            res == call_result.val
            ahead == res.day - ref
        IN  /\ res.some
            /\ Weekday(res.day) \in NamedDays(call_args.deadline_str)
            /\ ahead \in 1..7
            /\ \A d \in (ref + 1)..(res.day - 1) : Weekday(d) # Weekday(res.day)
            /\ Weekday(ref) = Weekday(res.day) => ahead = 7
            /\ (call_args.deadline_str = <<"F", "r", "i", "d", "a", "y">> /\ Weekday(ref) = 0)
                  => ahead = 4

\* 'FRIDAY' on a Friday gave the Friday a week later
C19_Witness ==
    /\ call_result.ok
    /\ call_args.deadline_str = <<"F", "R", "I", "D", "A", "Y">>
    /\ Weekday(call_args.reference_date) = 4
    /\ call_result.val = SomeDate(call_args.reference_date + 7)

\* what a text naming no weekday is parsed to when its terms are today, EOD,
\* tomorrow and next week, and the end of week too when end_of_week is TRUE
TermDate(deadline_str, ref, end_of_week) ==
    LET lower == ToLower(deadline_str)
    IN  IF Contains(lower, Today) \/ Contains(lower, Eod) THEN SomeDate(ref)
        ELSE IF Contains(lower, Tomorrow) THEN SomeDate(ref + 1)
        ELSE IF Contains(lower, NextWeekTerm) THEN SomeDate(ref + 7)
        ELSE IF end_of_week /\ Contains(lower, EndOfWeek)
             THEN SomeDate(CHOOSE d \in ref..(ref + 6) : Weekday(d) = 4)
        ELSE NoDate

\* C20: for a deadline text that names no weekday, _parse_deadline returns
\* the reference itself when the text contains 'today' or 'EOD' in any letter
\* case, the reference plus 1 day for 'tomorrow', the reference plus 7 days
\* for 'next week', and no date when the text matches none of these terms.
C20_RelativeTerms ==
    (call_result.ok /\ NamedDays(call_args.deadline_str) = {}) =>
        call_result.val = TermDate(call_args.deadline_str, call_args.reference_date, FALSE)

\* C20 (amended): as C20, the first of the terms today/EOD, tomorrow, next
\* week that the text contains deciding, except that a text containing none
\* of them but 'end of week' is parsed to the first Friday on or after the
\* reference; no date is returned when the text contains none of the terms,
\* 'end of week' included.
C20_RelativeTermsEndOfWeek ==
    (call_result.ok /\ NamedDays(call_args.deadline_str) = {}) =>
        call_result.val = TermDate(call_args.deadline_str, call_args.reference_date, TRUE)

\* 'End of Week' on a Saturday gave the Friday six days later
C20_Witness ==
    /\ call_result.ok
    /\ call_args.deadline_str = <<"E", "n", "d", " ", "o", "f", " ", "W", "e", "e", "k">>
    /\ Weekday(call_args.reference_date) = 5
    /\ call_result.val = SomeDate(call_args.reference_date + 6)

\* the known patterns in their order of priority: a text matches a pattern
\* when it contains, lower-cased, one of the texts of any and, where some are
\* given, one of the texts of also
KnownPatterns ==
    << [key |-> "GROQ_API_KEY", any |-> {P_groq_api_key, P_api_key}, also |-> {}],
       [key |-> "NEO4J_CONNECTION", any |-> {P_connection_refused, P_failed_to_establish},
        also |-> {}],
       [key |-> "NEO4J_AUTH", any |-> {P_authentication, P_unauthorized}, also |-> {}],
       [key |-> "RATE_LIMIT", any |-> {P_rate_limit, P_429}, also |-> {}],
       [key |-> "TOKEN_LIMIT", any |-> {P_token}, also |-> {P_limit, P_exceed}],
       [key |-> "INVALID_CYPHER", any |-> {P_syntax_error, P_cypher}, also |-> {}],
       [key |-> "EMPTY_GRAPH", any |-> {P_no_data, P_empty}, also |-> {}],
       [key |-> "NETWORK", any |-> {P_network, P_timeout}, also |-> {}] >>

\* the indices of the known patterns the error text matches
Matching(error) ==
    { k \in 1..Len(KnownPatterns) :
        /\ \E p \in KnownPatterns[k].any : Contains(ToLower(error), p)
        /\ KnownPatterns[k].also # {} =>
              \E p \in KnownPatterns[k].also : Contains(ToLower(error), p) }

\* C21: get_user_friendly_error returns, for every error, one of the 8 fixed
\* messages when the lower-cased error text contains a known pattern, the
\* message of the first pattern in the fixed order of priority that matches,
\* and otherwise the fallback text that shows the raw error message.
C21_FriendlyError ==
    call_result.ok =>
        LET hits == Matching(call_args)
            first == CHOOSE k \in hits : \A j \in hits : k <= j
        IN  /\ Cardinality({ERROR_MESSAGES[key] : key \in DOMAIN ERROR_MESSAGES}) = 8
            /\ hits # {} => call_result.val = ERROR_MESSAGES[KnownPatterns[first].key]
            /\ hits = {} => call_result.val = <<"An error occurred: ">> \o call_args

\* a text matching the rate limit and the token limit got the rate limit's
\* message
C21_Witness ==
    /\ call_result.ok
    /\ {4, 5} \subseteq Matching(call_args)
    /\ Matching(call_args) \cap 1..3 = {}
    /\ call_result.val = ERROR_MESSAGES.RATE_LIMIT

\* C22: when the LLM API key or the graph store password is absent, startup
\* fails with the configuration error of validate() before any agent is
\* constructed and before any connection is attempted.
C22_ValidatedAtStartup ==
    (call_result.ok /\ ~Validate(call_args).ok) =>
        /\ call_result.val.done = <<>>
        /\ ~call_result.val.connected
        /\ call_result.val.error = <<Validate(call_args).val>>

\* C23: the dictionary a build_graph that returned gives holds the numbers of
\* nodes and relationships that call created: each node count is the number
\* of nodes of that type the call added to the graph, and relationships is
\* the number of relationships it added.
C23_StatsCountCreated ==
    [][ builds' = builds + 1 /\ last_build'.outcome.ok =>
          LET stats == last_build'.outcome.val
              after == Graph(nodes', rels')
              Added(label) == CountOf(after, label) - CountOf(Current, label)
          IN  /\ stats.meetings = Added("Meeting")
              /\ stats.people = Added("Person")
              /\ stats.topics = Added("Topic")
              /\ stats.decisions = Added("Decision")
              /\ stats.action_items = Added("ActionItem")
              /\ stats.commitments = Added("Commitment")
              /\ stats.relationships = BagCardinality(rels') - BagCardinality(rels) ]_vars

\* C24: a newly constructed client holds no driver; the client holds a driver
\* exactly from a connect() that succeeded, one made for a run_query
\* included, until the next close(); connect() on a client that holds a
\* driver creates no other, and close() on a client that holds none does
\* nothing.
C24_DriverWhileConnected ==
    /\ last_run = NoRun => ~gb_driver
    /\ gb_driver <=> Verified
    /\ (last_run # NoRun /\ last_run.op = "connect" /\ last_run.had_driver) =>
          /\ last_run.events = <<>>
          /\ gb_driver
    /\ (last_run # NoRun /\ last_run.op = "close") =>
          /\ ~gb_driver
          /\ ~last_run.had_driver => last_run.events = <<>>

\* C28: a connect() that fails the verification of connectivity leaves the
\* client without a driver, the client of a QueryAgent that is not connected
\* included, and a connect() of the client, or of an agent not yet connected,
\* made while the store is unreachable on a client that has not passed the
\* verification, verifies and fails and leaves the agent unconnected.
C28_FailedConnectNotRetained ==
    /\ ~qa_connected => ~qa_driver
    /\ (last_run # NoRun /\ last_run.op \in {"connect", "agent.connect"}) =>
          /\ ~last_run.outcome.ok => ~gb_driver
          /\ (~last_run.reachable /\ ~last_run.was_verified /\ ~last_run.was_connected) =>
                /\ ~last_run.outcome.ok
                /\ ~gb_connected
                /\ last_run.events = <<"driver", "verify_connectivity">>

\* C25: formatting a chat history made of role/content messages yields a
\* text that contains 'Human: <content>' for each user message and
\* 'Assistant: <content>' for each assistant message.
C25_HumanAssistantLines ==
    (/\ call_result # NotCalled
     /\ call_args # <<>>
     /\ \A i \in 1..Len(call_args) : call_args[i] \in Messages) =>
        /\ call_result.ok
        /\ \A i \in 1..Len(call_args) :
              \E k \in 1..Len(call_result.val) :
                  call_result.val[k] =
                      << (IF call_args[i].role = "user" THEN "Human: " ELSE "Assistant: "),
                         call_args[i].content >>

\* C26: a query() call that returns took the steps translation, query
\* execution, answer synthesis and history append in this order, each after
\* the step before it returned; the translation and the synthesis both got
\* the history as it was before the call, without the turn of this call,
\* which is the last turn of the history once the call returned.
C26_StepsInOrder ==
    (last_query.kind = "returned" /\ chat_history # <<>>) =>
        LET n == Len(chat_history)
            before == SubSeq(chat_history, 1, n - 1)
        IN  /\ [i \in 1..Len(last_query.steps) |-> last_query.steps[i].step] =
                  <<"generate_cypher", "execute_query", "answer_chain",
                    "chat_history.append">>
            /\ \A i \in 1..Len(last_query.steps) : last_query.steps[i].raised = None
            /\ last_query.contexts =
                  <<FormatChatHistory(before), FormatChatHistory(before)>>
            /\ chat_history[n] =
                  Turn(last_query.question, last_query.answer, last_query.cypher)

\* the second query of a conversation returned: both prompts got the first
\* turn and not the second
C26_Witness ==
    /\ last_query.kind = "returned"
    /\ Len(chat_history) = 2
    /\ Len(last_query.contexts[1]) = 2
    /\ Len(last_query.contexts[2]) = 2
    /\ last_query.contexts[2][1][4] = chat_history[1].question
    /\ chat_history[2].question # chat_history[1].question

\* C27: when the translation chain or the synthesis chain raises in query(),
\* the call raises that exception, and the conversation history is as it was
\* before the call, with no turn added.
C27_FailureLeavesHistory ==
    [][ (last_query'.kind = "raised" /\ ~clear_history) =>
          LET steps == last_query'.steps
              last == steps[Len(steps)]
          IN  /\ chat_history' = chat_history
              /\ completed' = completed
              /\ last.raised # None
              /\ \A i \in 1..(Len(steps) - 1) : steps[i].raised = None
              /\ last.step \in {"generate_cypher", "answer_chain"} =>
                    last_query'.error = last.raised ]_vars

\* the synthesis chain raised in a query() made on a history of two turns,
\* which are still there
C27_Witness ==
    /\ last_query.kind = "raised"
    /\ last_query.steps[Len(last_query.steps)].step = "answer_chain"
    /\ last_query.error = last_query.steps[3].raised
    /\ Len(chat_history) = 2
    /\ completed = 2

\* the number of entries of the list that are the row
Times(list, item) == Cardinality({i \in 1..Len(list) : list[i] = item})

\* C29: get_deadline_status puts no action item in overdue: every date
\* _parse_deadline returns for a row is the reference date or a later one, so
\* days_until is never negative; and each row is in exactly one of due_soon,
\* upcoming and no_deadline.
C29_NeverOverdue ==
    call_result.ok =>
        LET status == call_result.val
            rows == call_args.results
        IN  /\ status.overdue = <<>>
            /\ \A i \in 1..Len(rows) :
                  /\ ("deadline" \in DOMAIN rows[i]
                        /\ ParseDeadline(rows[i].deadline, call_args.today).some) =>
                        ParseDeadline(rows[i].deadline, call_args.today).day
                            >= call_args.today
                  /\ Times(rows, rows[i]) =
                        Times(status.due_soon, rows[i]) + Times(status.upcoming, rows[i])
                          + Times(status.no_deadline, rows[i])
            /\ Len(status.due_soon) + Len(status.upcoming) + Len(status.no_deadline)
                  = Len(rows)

\* on a Saturday, a row due 'monday' is due soon and a row due 'Friday' is
\* upcoming
C29_Witness ==
    /\ call_result.ok
    /\ Weekday(call_args.today) = 5
    /\ Len(call_args.results) = 2
    /\ Len(call_result.val.due_soon) = 1
    /\ call_result.val.due_soon[1].deadline = <<"m", "o", "n", "d", "a", "y">>
    /\ Len(call_result.val.upcoming) = 1
    /\ call_result.val.upcoming[1].deadline = <<"F", "r", "i", "d", "a", "y">>

\* C30: when a store call fails part-way through build_graph, the error
\* reaches the caller and every node and relationship the earlier calls of
\* that build_graph wrote is in the graph, next to all that was there before:
\* nothing is rolled back.
C30_NoRollback ==
    [][ (builds' = builds + 1 /\ ~last_build'.outcome.ok /\ last_build'.applied >= 0) =>
          LET ops == BuildOps(last_build'.extraction)
              k == last_build'.applied
          IN  /\ k < Len(ops)
              /\ last_build'.outcome = Raise(Unavailable)
              /\ Graph(nodes', rels') = ApplyOps(Current, ops, k)
              /\ Kept(Current, Graph(nodes', rels'))
              /\ k >= 1 => nodes' # <<>> ]_vars

\* the only build_graph made failed on its fifth call: the meeting, a person
\* and a topic it wrote are in the graph with a relationship
C30_Witness ==
    /\ builds = 1
    /\ ~last_build.outcome.ok
    /\ last_build.applied = 4
    /\ Len(nodes) = 3
    /\ rels # EmptyBag

====
